---- MODULE Spec2Model ----
(***************************************************************************)
(* A model of the worker runtime of ai_task_processor: the multi-tier      *)
(* rate limiter (services/rate_limiter.py), the retry wrapper               *)
(* (utils/retry.py), the circuit breaker and control-plane client           *)
(* (services/api_client.py), the polling scheduler (scheduler.py), the      *)
(* task processors (processors/), the hybrid providers, the knowledge-graph *)
(* enrichment (services/wikidata_client.py) and the OAuth2 token cache      *)
(* (services/ory_auth.py).                                                  *)
(*                                                                         *)
(* Time is counted in whole seconds from Sunday 2024-12-01 00:00:00 UTC.    *)
(***************************************************************************)
EXTENDS Integers, Sequences, FiniteSets, TLC

VARIABLES
    settings,     \* config/settings.py: the options the modelled code reads
    now,          \* the wall clock (datetime.now(timezone.utc), time.time())
    clock_steps,  \* how often the clock has been advanced (bounds the run)
    rl,           \* RateLimiter: in-memory counters and the SQLite tables
    rl_call,      \* the last rate-limiter call: its arguments and its result
    rl_trail,     \* a usage snapshot, the record after it and the snapshot after that
    rt,           \* one run of exponential_backoff_retry
    api,          \* the APIClient in use: its httpx client and its CircuitBreaker
    calls,        \* per caller, its _make_request operation on the APIClient
    shutdown,     \* shutdown_manager: whether shutdown has been requested
    manager,      \* shutdown_manager's shutdown() and callbacks, and main()
    semaphore,    \* TaskScheduler.semaphore: the permits left
    tick,         \* the run of _poll_and_process_tasks in progress, or the last one
    workers,      \* the _process_single_task coroutines of that run
    opened,       \* the tick in which a circuit breaker last was open after a failure
    proc,         \* one task on its way through _process_single_task and its processor
    hybrid,       \* one call of a hybrid provider: the attempts it makes
    wikidata,     \* one run of WikidataClient.batch_enrich_personalities
    ory,          \* OryAuthClient: the cached token and the callers of get_access_token
    conns,        \* the rate-limiter operations in progress on the SQLite file
    job           \* the 'task_polling' job of the AsyncIOScheduler

vars == <<settings, now, clock_steps, rl, rl_call, rl_trail, rt, api, calls,
          shutdown, manager, semaphore, tick, workers, opened,
          proc, hybrid, wikidata, ory, conns, job>>

rlVars == <<rl, rl_call, rl_trail>>
apiVars == <<api, calls>>
schedVars == <<shutdown, manager, semaphore, tick, workers, opened>>
svcVars == <<proc, hybrid, wikidata, ory, conns, job>>

-----------------------------------------------------------------------------
(* Bounds of the model *)

MaxLimit == 2          \* the limit of an enabled tier
MaxBatch == 3          \* largest task_count passed to the limiter
MaxRecorded == 2       \* completions recorded in one run
MaxClockSteps == 1     \* clock advances in one run of the limiter on its own
MaxRetries == 2        \* largest retry budget (argument or settings.max_retries)
MaxThreshold == 2      \* largest settings.circuit_breaker_threshold
MaxApiClockSteps == 2  \* clock advances in one run of the control-plane client
MaxWorkers == 3        \* most workers one tick can launch
MaxConcurrency == 2    \* largest settings.concurrency_limit of the scheduler's runs
MaxUsageClockSteps == 2  \* clock advances around one usage, record, usage sequence
MaxTicks == 2          \* ticks in one run of the scheduler
ScenarioTicks == 3     \* ticks in one run of the rate-limit admission scenario
MaxSignals == 2        \* SIGINT or SIGTERM signals delivered to one process
MaxRegistrations == 2  \* calls of add_cleanup_callback in one process

-----------------------------------------------------------------------------
(* Program constants *)

SecondsPerMinute == 60
SecondsPerHour == 3600
SecondsPerDay == 86400
SecondsPerWeek == 604800
SecondsPerMonth == 2592000

NoTime == -1           \* None where the code holds a time
RecoveryTimeout == 60  \* CircuitBreaker(recovery_timeout=60)
TransportError == 0    \* in place of a status: the request raised httpx.RequestError

Min(a, b) == IF a < b THEN a ELSE b
Max(a, b) == IF a > b THEN a ELSE b

-----------------------------------------------------------------------------
(* RateLimitPeriod and the window arithmetic *)

\* self.limits is a dict: iteration follows insertion order
Periods == <<"minute", "hour", "day", "week", "month">>
PeriodSet == {Periods[i] : i \in 1..Len(Periods)}
MemoryPeriods == {"minute", "hour"}
DatabasePeriods == {"day", "week", "month"}

period_seconds(p) ==
    CASE p = "minute" -> SecondsPerMinute
      [] p = "hour"   -> SecondsPerHour
      [] p = "day"    -> SecondsPerDay
      [] p = "week"   -> SecondsPerWeek
      [] p = "month"  -> SecondsPerMonth

\* the calendar: days of month m (1..12) of year y
DaysInMonth(y, m) ==
    IF m = 2 THEN (IF y % 4 = 0 THEN 29 ELSE 28)
    ELSE IF m \in {4, 6, 9, 11} THEN 30 ELSE 31

\* the first month of the calendar: December 2024, and the weekday of its day 1
\* (Monday = 0: 2024-12-01 is a Sunday)
Epoch == <<2024, 12>>
EpochWeekday == Len(<<"Mon", "Tue", "Wed", "Thu", "Fri", "Sat">>)

\* seconds from the epoch to day 1, 00:00:00 of month m of year y
RECURSIVE MonthStart(_, _)
MonthStart(y, m) ==
    IF <<y, m>> = Epoch THEN 0
    ELSE IF m = 1 THEN MonthStart(y - 1, 12) + DaysInMonth(y - 1, 12) * SecondsPerDay
    ELSE MonthStart(y, m - 1) + DaysInMonth(y, m - 1) * SecondsPerDay

NextMonth(ym) == IF ym[2] = 12 THEN <<ym[1] + 1, 1>> ELSE <<ym[1], ym[2] + 1>>

\* (now.year, now.month) of the instant t
RECURSIVE YearMonthFrom(_, _)
YearMonthFrom(t, ym) ==
    IF t < MonthStart(NextMonth(ym)[1], NextMonth(ym)[2]) THEN ym
    ELSE YearMonthFrom(t, NextMonth(ym))

YearMonth(t) == YearMonthFrom(t, Epoch)

\* now.weekday(): Monday = 0
Weekday(t) == ((t \div SecondsPerDay) + EpochWeekday) % 7

get_rolling_window(p, t) == <<t - period_seconds(p), t>>

get_fixed_window(p, t) ==
    CASE p = "minute" ->
            <<t - (t % SecondsPerMinute), t - (t % SecondsPerMinute) + SecondsPerMinute>>
      [] p = "hour" ->
            <<t - (t % SecondsPerHour), t - (t % SecondsPerHour) + SecondsPerHour>>
      [] p = "day" ->
            <<t - (t % SecondsPerDay), t - (t % SecondsPerDay) + SecondsPerDay>>
      [] p = "week" ->
            LET monday == (t - Weekday(t) * SecondsPerDay)
                start == monday - (monday % SecondsPerDay)
            IN  <<start, start + SecondsPerWeek>>
      [] p = "month" ->
            LET ym == YearMonth(t)
                nx == NextMonth(ym)
            IN  <<MonthStart(ym[1], ym[2]), MonthStart(nx[1], nx[2])>>

get_window_boundaries(cfg, p, t) ==
    IF cfg.rate_limit_strategy = "rolling"
    THEN get_rolling_window(p, t)
    ELSE get_fixed_window(p, t)

-----------------------------------------------------------------------------
(* RateLimiter *)

NoRow == [current_count |-> 0, window_start |-> NoTime, window_end |-> NoTime]

\* RateLimiter.__init__ at time t
RateLimiterInit(t) ==
    [ minute_counter      |-> 0,
      hour_counter        |-> 0,
      minute_window_start |-> t,
      hour_window_start   |-> t,
      initialized         |-> FALSE,
      rate_limits         |-> [p \in DatabasePeriods |-> NoRow],
      task_completions    |-> << >> ]

initialize(s) == [s EXCEPT !.initialized = TRUE]

RowMatchesThroughEnd(row, t) ==
    row.window_start # NoTime /\ row.window_start <= t /\ row.window_end >= t

\* SELECT ... WHERE time_period = p AND window_start <= now AND window_end > now
RowMatches(row, t) == row.window_start # NoTime /\ row.window_start <= t /\ row.window_end > t

\* SELECT COUNT( * ) FROM task_completions WHERE completed_at >= ws AND completed_at <= t
CountCompletions(seq, ws, t) ==
    Cardinality({i \in 1..Len(seq) : seq[i] >= ws /\ seq[i] <= t})

\* <<usage, limiter state after the call>>
get_current_usage_in_memory(cfg, s, p, t) ==
    LET ws == get_window_boundaries(cfg, p, t)[1] IN
    IF p = "minute" THEN
        IF ws > s.minute_window_start
        THEN <<0, [s EXCEPT !.minute_counter = 0, !.minute_window_start = ws]>>
        ELSE <<s.minute_counter, s>>
    ELSE IF p = "hour" THEN
        IF ws > s.hour_window_start
        THEN <<0, [s EXCEPT !.hour_counter = 0, !.hour_window_start = ws]>>
        ELSE <<s.hour_counter, s>>
    ELSE <<0, s>>

get_current_usage_database(cfg, s, p, t) ==
    LET w == get_window_boundaries(cfg, p, t) IN
    IF cfg.rate_limit_strategy = "rolling"
    THEN <<CountCompletions(s.task_completions, w[1], t), s>>
    ELSE IF RowMatches(s.rate_limits[p], t)
         THEN <<s.rate_limits[p].current_count, s>>
         ELSE <<0, [s EXCEPT !.rate_limits[p] =
                       [current_count |-> 0, window_start |-> w[1], window_end |-> w[2]]]>>

\* the branch of check_all_limits and get_current_usage on the kind of tier
TierUsage(cfg, s, p, t) ==
    IF p \in MemoryPeriods
    THEN get_current_usage_in_memory(cfg, s, p, t)
    ELSE get_current_usage_database(cfg, s, p, t)

DisabledBelowZero(limit) == limit < 0

\* if limit <= 0: continue
Disabled(limit) == limit <= 0

EnabledLimits(cfg) == {p \in PeriodSet : cfg.limits[p] > 0}

NoPeriod == "none"
EmptyMap == [p \in {} |-> 0]

ExceedsAtLimit(usage, task_count, limit) == usage + task_count >= limit

\* usage + task_count > limit
Exceeds(usage, task_count, limit) == usage + task_count > limit

\* the loop of check_all_limits from tier i on; cu and resets are the dicts built so far
RECURSIVE CheckFrom(_, _, _, _, _, _, _)
CheckFrom(cfg, s, task_count, t, i, cu, resets) ==
    IF i > Len(Periods) THEN
        [ allowed |-> TRUE, period_exceeded |-> NoPeriod, current_usage |-> cu,
          reset_times |-> resets, state |-> s ]
    ELSE
        LET p == Periods[i] IN
        IF Disabled(cfg.limits[p]) THEN CheckFrom(cfg, s, task_count, t, i + 1, cu, resets)
        ELSE
            LET u   == TierUsage(cfg, s, p, t)
                cu2 == (p :> u[1]) @@ cu
                resets2 == (p :> get_window_boundaries(cfg, p, t)[2]) @@ resets
            IN  IF Exceeds(u[1], task_count, cfg.limits[p])
                THEN [ allowed |-> FALSE, period_exceeded |-> p, current_usage |-> cu2,
                       reset_times |-> resets2, state |-> u[2] ]
                ELSE CheckFrom(cfg, u[2], task_count, t, i + 1, cu2, resets2)

check_all_limits(cfg, s, task_count, t) ==
    IF ~cfg.rate_limit_enabled
    THEN [ allowed |-> TRUE, period_exceeded |-> NoPeriod, current_usage |-> EmptyMap,
           reset_times |-> EmptyMap, state |-> s ]
    ELSE CheckFrom(cfg, initialize(s), task_count, t, 1, EmptyMap, EmptyMap)

\* n copies of t appended
RECURSIVE AppendTimes(_, _, _)
AppendTimes(seq, t, n) == IF n <= 0 THEN seq ELSE AppendTimes(Append(seq, t), t, n - 1)

\* INSERT OR REPLACE ... COALESCE((SELECT current_count ... matching window), 0) + task_count
UpsertRow(cfg, row, p, task_count, t) ==
    LET w == get_window_boundaries(cfg, p, t) IN
    [ current_count |-> (IF RowMatches(row, t) THEN row.current_count ELSE 0) + task_count,
      window_start  |-> w[1],
      window_end    |-> w[2] ]

\* id_count is len(task_ids), 0 for None or an empty list
record_completed_tasks(cfg, s, task_count, id_count, t) ==
    IF ~cfg.rate_limit_enabled THEN s
    ELSE
        LET s1 == initialize(s) IN
        [ s1 EXCEPT
            !.minute_counter = @ + task_count,
            !.hour_counter = @ + task_count,
            !.task_completions =
                AppendTimes(@, t, IF id_count > 0 THEN id_count ELSE task_count),
            !.rate_limits =
                [p \in DatabasePeriods |->
                    IF Disabled(cfg.limits[p]) THEN @[p]
                    ELSE UpsertRow(cfg, @[p], p, task_count, t)] ]

\* the loop of get_current_usage from tier i on; stats is the dict built so far
RECURSIVE UsageFrom(_, _, _, _, _)
UsageFrom(cfg, s, t, i, stats) ==
    IF i > Len(Periods) THEN [stats |-> stats, state |-> s]
    ELSE
        LET p == Periods[i] IN
        IF Disabled(cfg.limits[p]) THEN UsageFrom(cfg, s, t, i + 1, stats)
        ELSE
            LET u == TierUsage(cfg, s, p, t)
                w == get_window_boundaries(cfg, p, t)
                usage == [ current      |-> u[1],
                           limit        |-> cfg.limits[p],
                           remaining    |-> Max(0, cfg.limits[p] - u[1]),
                           reset_at     |-> w[2],
                           window_start |-> w[1] ]
            IN  UsageFrom(cfg, u[2], t, i + 1, (p :> usage) @@ stats)

get_current_usage(cfg, s, t) ==
    IF ~cfg.rate_limit_enabled THEN [stats |-> EmptyMap, state |-> s]
    ELSE UsageFrom(cfg, initialize(s), t, 1, EmptyMap)

-----------------------------------------------------------------------------
(* utils/retry.py *)

\* the exception classes the modelled code raises; "Exception" is their base
ExceptionClasses ==
    {"RetryableError", "NonRetryableError", "RequestError", "HTTPStatusError", "RuntimeError"}

\* isinstance(e, classes) for an exception of class cls
IsInstance(cls, classes) == cls \in classes \/ "Exception" \in classes

\* max_retries = max_retries or settings.max_retries (None and 0 are both falsy)
EffectiveMaxRetries(cfg, max_retries) ==
    IF max_retries = 0 THEN cfg.max_retries ELSE max_retries

\* range(max_retries + 1): the attempts of the loop
AttemptsShort(max_retries) == 0..(max_retries - 1)

Attempts(max_retries) == 0..max_retries

OnExceptionRetryableFirst(cls, attempt, max_retries, retryable_exceptions, non_retryable_exceptions) ==
    IF IsInstance(cls, retryable_exceptions)
    THEN (IF attempt = max_retries THEN "raise" ELSE "sleep")
    ELSE "raise"

\* the except clauses of the loop, in their order: "raise" or "sleep"
OnException(cls, attempt, max_retries, retryable_exceptions, non_retryable_exceptions) ==
    IF IsInstance(cls, non_retryable_exceptions) THEN "raise"
    ELSE IF IsInstance(cls, retryable_exceptions)
         THEN (IF attempt = max_retries THEN "raise" ELSE "sleep")
         ELSE "raise"

\* backoff_factor ** attempt, for the default factor of settings.py
RECURSIVE Power(_, _)
Power(b, e) == IF e <= 0 THEN 1 ELSE b * Power(b, e - 1)
BackoffDelay(attempt) == Power(2, attempt)

-----------------------------------------------------------------------------
(* services/api_client.py: CircuitBreaker *)

CircuitBreakerInit(failure_threshold) ==
    [ failure_threshold |-> failure_threshold,
      recovery_timeout  |-> RecoveryTimeout,
      failure_count     |-> 0,
      last_failure_time |-> NoTime,
      state             |-> "closed" ]

record_failure(cb, t) ==
    [ cb EXCEPT !.failure_count = @ + 1,
                !.last_failure_time = t,
                !.state = IF cb.failure_count + 1 >= cb.failure_threshold
                          THEN "open" ELSE @ ]

reset(cb) ==
    [cb EXCEPT !.failure_count = 0, !.last_failure_time = NoTime, !.state = "closed"]

RecoveryElapsedAtTimeout(cb, t) == t - cb.last_failure_time >= cb.recovery_timeout

\* time.time() - self.last_failure_time > self.recovery_timeout
RecoveryElapsed(cb, t) == t - cb.last_failure_time > cb.recovery_timeout

CallEnterCountingRejections(cb, t) ==
    IF cb.state = "open"
    THEN IF RecoveryElapsed(cb, t)
         THEN [admit |-> TRUE, cb |-> [cb EXCEPT !.state = "half-open"]]
         ELSE [admit |-> FALSE, cb |-> record_failure(cb, t)]
    ELSE [admit |-> TRUE, cb |-> cb]

\* CircuitBreaker.call up to "await func()": whether func is invoked, and the breaker
CallEnter(cb, t) ==
    IF cb.state = "open"
    THEN IF RecoveryElapsed(cb, t)
         THEN [admit |-> TRUE, cb |-> [cb EXCEPT !.state = "half-open"]]
         ELSE [admit |-> FALSE, cb |-> cb]
    ELSE [admit |-> TRUE, cb |-> cb]

CallSucceededResetting(cb) == reset(cb)

\* CircuitBreaker.call after func returned
CallSucceeded(cb) == IF cb.state = "half-open" THEN reset(cb) ELSE cb

CallFailedUncounted(cb, t) == cb

\* CircuitBreaker.call after func raised
CallFailed(cb, t) == record_failure(cb, t)

-----------------------------------------------------------------------------
(* services/api_client.py: APIClient *)

APIClientInit(cfg) ==
    [ client |-> FALSE, circuit_breaker |-> CircuitBreakerInit(cfg.circuit_breaker_threshold) ]

\* __aenter__
APIClientEnter(a) == [a EXCEPT !.client = TRUE]

NoStatus == NoTime

\* request(): "ok" or the class of the exception raised for the outcome
RequestOutcome(status) ==
    IF status = TransportError THEN "RequestError"
    ELSE IF status >= 500 THEN "RetryableError"
    ELSE IF status >= 400 THEN "NonRetryableError"
    ELSE "ok"

\* the arguments of @retry on _make_request
MakeRequestRetryable == {"RequestError", "HTTPStatusError"}
MakeRequestNonRetryable == {"NonRetryableError"}

Callers == 0..MaxWorkers

\* one call of _make_request.  trial: the attempt was admitted with the breaker
\* half-open; probe: the attempt itself moved the breaker from open to half-open
NoOperation ==
    [ phase |-> "idle", method |-> "none", attempt |-> 0, max_retries |-> 0,
      requests |-> 0, status |-> NoStatus, exc |-> "none", reason |-> "none",
      tripped_at_call |-> FALSE, trial |-> FALSE, probe |-> FALSE ]

OperationDone(c) == c.phase \in {"idle", "returned", "raised"}

\* exponential_backoff_retry around _make_request: an exception of class cls
\* left the attempt
AfterException(c, cls, reason) ==
    LET todo == OnException(cls, c.attempt, c.max_retries,
                            MakeRequestRetryable, MakeRequestNonRetryable)
    IN  [ c EXCEPT !.exc = cls, !.reason = reason,
                   !.phase = IF todo = "raise" THEN "raised" ELSE "sleeping" ]

\* at this call of the breaker the failure count has reached the threshold and
\* the last failure is at most recovery_timeout old
Tripped(cb, t) ==
    /\ cb.failure_count >= cb.failure_threshold
    /\ cb.last_failure_time # NoTime
    /\ t - cb.last_failure_time <= cb.recovery_timeout

\* one attempt of _make_request up to the await of the HTTP request:
\* <<the client after it, the operation after it>>
BeginAttempt(a, c, t) ==
    IF ~a.client
    THEN <<a, AfterException([c EXCEPT !.status = NoStatus, !.trial = FALSE,
                                       !.probe = FALSE],
                             "RuntimeError", "not_initialized")>>
    ELSE
        LET e  == CallEnter(a.circuit_breaker, t)
            c1 == [c EXCEPT !.status = NoStatus,
                            !.tripped_at_call = Tripped(a.circuit_breaker, t),
                            !.trial = e.admit /\ e.cb.state = "half-open",
                            !.probe = e.admit /\ a.circuit_breaker.state = "open"]
        IN  IF e.admit
            THEN << [a EXCEPT !.circuit_breaker = e.cb],
                    [c1 EXCEPT !.phase = "inflight", !.requests = @ + 1,
                               !.exc = "none", !.reason = "none"] >>
            ELSE << [a EXCEPT !.circuit_breaker = e.cb],
                    AfterException(c1, "NonRetryableError", "circuit_open") >>

\* the HTTP request of an attempt ended with `status`
EndAttempt(a, c, status, t) ==
    LET out == RequestOutcome(status)
        c1  == [c EXCEPT !.status = status]
    IN  IF out = "ok"
        THEN << [a EXCEPT !.circuit_breaker = CallSucceeded(@)],
                [c1 EXCEPT !.phase = "returned", !.exc = "none", !.reason = "none"] >>
        ELSE << [a EXCEPT !.circuit_breaker = CallFailed(@, t)],
                AfterException(c1, out, "response") >>

\* a call of _make_request(method, ...) before its first attempt: @retry() passes
\* no max_retries
NewOperation(cfg, method) ==
    [NoOperation EXCEPT !.method = method, !.max_retries = EffectiveMaxRetries(cfg, 0)]

\* caller k starts _make_request(method, ...)
StartOperation(k, method) ==
    LET r == BeginAttempt(api, NewOperation(settings, method), now)
    IN  /\ OperationDone(calls[k])
        /\ api' = r[1]
        /\ calls' = [calls EXCEPT ![k] = r[2]]

\* the response to caller k's request arrives
FinishRequest(k, status) ==
    LET r == EndAttempt(api, calls[k], status, now)
    IN  /\ calls[k].phase = "inflight"
        /\ api' = r[1]
        /\ calls' = [calls EXCEPT ![k] = r[2]]

\* caller k's backoff sleep is over: the next attempt
RetryOperation(k) ==
    LET r == BeginAttempt(api, [calls[k] EXCEPT !.attempt = @ + 1], now)
    IN  /\ calls[k].phase = "sleeping"
        /\ api' = r[1]
        /\ calls' = [calls EXCEPT ![k] = r[2]]

-----------------------------------------------------------------------------
(* scheduler.py: TaskScheduler *)

Workers == 1..MaxWorkers

NeverRequested == FALSE

NotShuttingDown == FALSE

\* GracefulShutdown._is_shutting_down: shutdown() sets it in the step in which
\* it sets the event
is_shutting_down == shutdown

\* shutdown_manager.is_shutdown_requested(): the event is set
is_shutdown_requested == shutdown

\* GracefulShutdown.__init__, and main() before wait_for_shutdown.
\* pc is where shutdown() is: "none", "draining" (in its gather), "done",
\* "cancelled"; pending counts the shutdown() tasks created and not yet run;
\* awaited is what gather was given; registered, invoked and running_at_cleanup
\* record the add_cleanup_callback calls in order, the callbacks in the order of
\* their invocation and _running_tasks at the first of them; at_signal records
\* _running_tasks at the first signal; main is "waiting", "stopping" (in its
\* gather) or "returned"; flag_sets, drains and reentries count the runs of
\* shutdown() that set the event, that reached the gather, and that returned at
\* the _is_shutting_down check
NoManager ==
    [ pc |-> "none", signals |-> 0, pending |-> 0, awaited |-> {},
      cleanup_callbacks |-> {}, registered |-> <<>>, invoked |-> <<>>,
      running_at_cleanup |-> {}, at_signal |-> {}, main |-> "waiting",
      flag_sets |-> 0, drains |-> 0, reentries |-> 0 ]

NoTick ==
    [ pc |-> "idle", number |-> 0, at |-> NoTime, fetched |-> 0, batch |-> 0,
      launched |-> 0, credited |-> 0, denied |-> NoPeriod, raised |-> FALSE,
      noop |-> FALSE ]

\* pc: "none", "created" (asyncio.create_task), "processing" (in the processor),
\* "updating" (in update_task_status), "done" (returned or raised);
\* updates: the calls of update_task_status the worker has made
NoWorker ==
    [ pc |-> "none", result |-> "none", skipped |-> FALSE, delivered |-> FALSE,
      updates |-> 0, raised |-> FALSE ]

NoOpening == [tick |-> 0, at |-> NoTime]

\* TaskScheduler.__init__: asyncio.Semaphore(settings.concurrency_limit)
SchedulerInit(cfg) == cfg.concurrency_limit

PrecheckOfOne(cfg) == 1

\* line 67: rate_limiter.check_all_limits(settings.concurrency_limit)
precheck_size(cfg) == cfg.concurrency_limit

BatchOfAllTasks(cfg, n) == n

\* actual_batch_size = min(len(tasks), settings.concurrency_limit)
actual_batch_size(cfg, n) == Min(n, cfg.concurrency_limit)

\* a worker is between the acquire and the release of `async with self.semaphore`
HoldsPermit(wk) == wk.pc \in {"processing", "updating"}

Holders(ws) == {w \in Workers : HoldsPermit(ws[w])}

NoCompletions(ws, launched) == 0

\* sum(1 for result in results if not isinstance(result, Exception)): every
\* worker returns None, whatever it did
successful_count(ws, launched) ==
    Cardinality({w \in 1..launched : ws[w].pc = "done" /\ ~ws[w].raised})

ExecuteUnhandled(outcome) == outcome

\* BaseProcessor.execute_with_error_handling: the result of process(), and a
\* failed TaskResult when process() raises an Exception
execute_with_error_handling(outcome) ==
    IF outcome = "raises" THEN "failed" ELSE outcome

\* the worker calls update_task_status with its TaskResult
PostResult(wk, result) == [wk EXCEPT !.result = result, !.updates = @ + 1]

Succeeded(ws) == {w \in Workers : ws[w].result = "succeeded"}

\* the workers whose task reached a TaskResult
Processed(ws) == {w \in Workers : ws[w].result # "none"}

-----------------------------------------------------------------------------
(* Settings *)

DefaultLimits == [p \in PeriodSet |-> 0]

\* the defaults of config/settings.py, scaled to the bounds of the model
DefaultSettings ==
    [ rate_limit_enabled        |-> TRUE,
      rate_limit_strategy       |-> "rolling",
      limits                    |-> DefaultLimits,
      concurrency_limit         |-> 1,
      max_retries               |-> 1,
      circuit_breaker_threshold |-> 1 ]

\* no tier, one tier or two tiers enabled, each with the limit MaxLimit
LimitConfigs ==
    {[p \in PeriodSet |-> IF p \in on THEN MaxLimit ELSE 0] :
        on \in {{}} \cup {{a, b} : a \in PeriodSet, b \in PeriodSet}}

\* the instant at which the process starts: Monday 2024-12-30 00:00:10, so that
\* the month ends (and the year rolls) before the week does
StartTime == 29 * SecondsPerDay + 10

\* no tick has run
Idle == [pc |-> "idle"]

\* The services no task is using.
ServicesIdle ==
    /\ proc = Idle
    /\ hybrid = Idle
    /\ wikidata = Idle
    /\ ory = Idle
    /\ conns = Idle
    /\ job = Idle

SchedulerIdle ==
    /\ shutdown = FALSE
    /\ manager = NoManager
    /\ semaphore = SchedulerInit(settings)
    /\ tick = NoTick
    /\ workers = [w \in Workers |-> NoWorker]
    /\ opened = NoOpening

-----------------------------------------------------------------------------
(* The rate limiter on its own: calls of its three operations, in any order,
   at any times *)

\* no run of exponential_backoff_retry yet
RetryIdle ==
    [ phase |-> "idle", max_retries |-> 0, retryable_exceptions |-> {},
      non_retryable_exceptions |-> {}, attempt |-> 0, outcomes |-> << >>,
      returned |-> 0, raised |-> 0, delay |-> 0 ]

NoCall ==
    [ op |-> "none", task_count |-> 0, at |-> NoTime, before |-> EmptyMap,
      allowed |-> TRUE, period_exceeded |-> NoPeriod, current_usage |-> EmptyMap,
      stats |-> EmptyMap ]

NoTrail ==
    [ op |-> "none", first |-> EmptyMap, first_at |-> NoTime, task_count |-> 0,
      second |-> EmptyMap, second_at |-> NoTime ]

\* what each enabled tier holds for the instant t, seen from state s
UsageBefore(cfg, s, t) == [p \in EnabledLimits(cfg) |-> TierUsage(cfg, s, p, t)[1]]

InitRL ==
    /\ settings \in {[DefaultSettings EXCEPT !.rate_limit_enabled = e,
                                             !.rate_limit_strategy = st,
                                             !.limits = f] :
                        e \in BOOLEAN, st \in {"rolling", "fixed"}, f \in LimitConfigs}
    /\ now = StartTime
    /\ clock_steps = 0
    /\ rl = RateLimiterInit(now)
    /\ rl_call = NoCall
    /\ rl_trail = NoTrail
    /\ rt = RetryIdle
    /\ api = APIClientInit(settings)
    /\ calls = [k \in Callers |-> NoOperation]
    /\ SchedulerIdle
    /\ ServicesIdle

\* one second, and for each enabled tier the time to the next boundary of its
\* calendar window and the length of its window
ClockJumps(cfg, t) ==
    {1} \cup {get_fixed_window(p, t)[2] - t : p \in EnabledLimits(cfg)}
        \cup {period_seconds(p) : p \in EnabledLimits(cfg)}

AdvanceClock ==
    /\ clock_steps < MaxClockSteps
    /\ \E d \in ClockJumps(settings, now) : now' = now + d
    /\ clock_steps' = clock_steps + 1
    /\ UNCHANGED <<settings, svcVars, rl, rl_call, rl_trail, rt, api, calls, schedVars>>

RLCheck ==
    \E n \in 1..MaxBatch :
        LET r == check_all_limits(settings, rl, n, now) IN
        /\ rl' = r.state
        /\ rl_call' = [ NoCall EXCEPT !.op = "check", !.task_count = n, !.at = now,
                          !.before = UsageBefore(settings, rl, now),
                          !.allowed = r.allowed,
                          !.period_exceeded = r.period_exceeded,
                          !.current_usage = r.current_usage ]
        /\ UNCHANGED <<settings, svcVars, now, clock_steps, rl_trail, rt, api, calls, schedVars>>

RLRecord ==
    \E n \in 1..MaxBatch : \E id_count \in {0, n} :
        /\ Len(rl.task_completions) + n <= MaxRecorded
        /\ rl' = record_completed_tasks(settings, rl, n, id_count, now)
        /\ rl_call' = [ NoCall EXCEPT !.op = "record", !.task_count = n, !.at = now,
                          !.before = UsageBefore(settings, rl, now) ]
        /\ UNCHANGED <<settings, svcVars, now, clock_steps, rl_trail, rt, api, calls, schedVars>>

RLUsage ==
    LET r == get_current_usage(settings, rl, now) IN
    /\ rl' = r.state
    /\ rl_call' = [ NoCall EXCEPT !.op = "usage", !.at = now,
                      !.before = UsageBefore(settings, rl, now),
                      !.stats = r.stats ]
    /\ UNCHANGED <<settings, svcVars, now, clock_steps, rl_trail, rt, api, calls, schedVars>>

NextRL == AdvanceClock \/ RLCheck \/ RLRecord \/ RLUsage

SpecRL == InitRL /\ [][NextRL]_vars

-----------------------------------------------------------------------------
(* Claims about the rate limiter *)

WithinEveryLimit(c) ==
    \A p \in EnabledLimits(settings) : c.before[p] + c.task_count <= settings.limits[p]

DenialNamesExceededTier(c) ==
    /\ c.period_exceeded \in EnabledLimits(settings)
    /\ c.before[c.period_exceeded] + c.task_count > settings.limits[c.period_exceeded]

\* C1 as stated: check_all_limits(n) allows exactly when usage + n <= limit on
\* every enabled tier, and a denial names a tier with usage + n > limit
C1_AllowedIffWithinEveryLimit ==
    rl_call.op = "check" =>
        /\ rl_call.allowed <=> WithinEveryLimit(rl_call)
        /\ ~rl_call.allowed => DenialNamesExceededTier(rl_call)

\* C1 amended: with rate_limit_enabled set, check_all_limits(n) allows exactly
\* when usage + n <= limit on every enabled tier, and a denial names a tier
\* with usage + n > limit
C1_EnabledAllowedIffWithinEveryLimit ==
    (rl_call.op = "check" /\ settings.rate_limit_enabled) =>
        /\ rl_call.allowed <=> WithinEveryLimit(rl_call)
        /\ ~rl_call.allowed => DenialNamesExceededTier(rl_call)

\* a denial by a tier that is not the first enabled one: an earlier tier passed
C1_Witness ==
    /\ rl_call.op = "check"
    /\ settings.rate_limit_enabled
    /\ ~rl_call.allowed
    /\ \E p \in EnabledLimits(settings) :
          /\ p # rl_call.period_exceeded
          /\ rl_call.before[p] + rl_call.task_count <= settings.limits[p]

\* the completions recorded at a time t with t <= at < t + length, among the
\* rows of task_completions (one row per completion, never deleted here)
CompletionsWithin(seq, at, length) ==
    Cardinality({i \in 1..Len(seq) : seq[i] <= at /\ at < seq[i] + length})

\* a check_all_limits call that looked at the tiers under the rolling strategy
RollingCheck ==
    /\ rl_call.op = "check"
    /\ settings.rate_limit_enabled
    /\ settings.rate_limit_strategy = "rolling"

\* C12 as stated, its first half: under the rolling strategy every completion
\* recorded at a time t is counted by check_all_limits for an enabled tier of
\* length T at every time t' with t <= t' < t + T
C12_RollingWindowCounts ==
    RollingCheck =>
        \A p \in EnabledLimits(settings) :
            rl_call.before[p] >=
                CompletionsWithin(rl.task_completions, rl_call.at, period_seconds(p))

\* a check_all_limits call under the fixed strategy made at the very start of
\* tier p's calendar window, every completion having been recorded before
CheckAtWindowStart(p) ==
    /\ rl_call.op = "check"
    /\ settings.rate_limit_enabled
    /\ settings.rate_limit_strategy = "fixed"
    /\ get_fixed_window(p, rl_call.at)[1] = rl_call.at
    /\ \A i \in 1..Len(rl.task_completions) : rl.task_completions[i] < rl_call.at

\* C13: under the fixed strategy a check made exactly at the start of a new
\* calendar window of an enabled tier sees usage 0 for that tier, whatever was
\* recorded before
C13_FixedBoundaryStartsEmpty ==
    \A p \in EnabledLimits(settings) :
        CheckAtWindowStart(p) => rl_call.before[p] = 0

\* completions were recorded, and a check at the start of a day sees 0 both
\* for the in-memory hour tier and for the stored day tier
C13_Witness ==
    /\ EnabledLimits(settings) = {"hour", "day"}
    /\ CheckAtWindowStart("hour")
    /\ CheckAtWindowStart("day")
    /\ Len(rl.task_completions) > 0
    /\ rl_call.before["hour"] = 0
    /\ rl_call.before["day"] = 0

\* the tiers configured with the limit 0
ZeroTiers == {p \in PeriodSet : settings.limits[p] = 0}

\* C15: a tier whose limit is 0 is never named as period_exceeded, never causes
\* a denial (a denial names an enabled tier that is exceeded, and with no
\* enabled tier every batch is allowed) and is absent from the usage reported
\* by check_all_limits and by get_current_usage
C15_ZeroLimitDisabled ==
    /\ rl_call.op = "check" =>
          /\ rl_call.period_exceeded \notin ZeroTiers
          /\ DOMAIN rl_call.current_usage \cap ZeroTiers = {}
          /\ ~rl_call.allowed =>
                /\ settings.limits[rl_call.period_exceeded] > 0
                /\ rl_call.before[rl_call.period_exceeded] + rl_call.task_count
                       > settings.limits[rl_call.period_exceeded]
          /\ ZeroTiers = PeriodSet => rl_call.allowed
    /\ rl_call.op = "usage" => DOMAIN rl_call.stats \cap ZeroTiers = {}

\* the minute tier has the limit 0 and its counter holds completions; a batch
\* that would exceed every enabled limit's value on it is allowed
C15_Witness ==
    /\ rl_call.op = "check"
    /\ settings.rate_limit_enabled
    /\ "minute" \in ZeroTiers
    /\ EnabledLimits(settings) # {}
    /\ rl.minute_counter > 0
    /\ rl.minute_counter + rl_call.task_count > MaxLimit
    /\ rl_call.allowed

-----------------------------------------------------------------------------
(* The rate limiter read around a record: completions are recorded, then
   get_current_usage, record_completed_tasks and get_current_usage again are
   called, time passing in between *)

\* the `current` of every tier of a usage snapshot
CurrentOf(stats) == [p \in DOMAIN stats |-> stats[p].current]

\* record_completed_tasks before the first snapshot
UsagePriorRecord ==
    /\ rl_trail.op = "none"
    /\ \E n \in 1..MaxBatch :
          /\ Len(rl.task_completions) + n <= MaxRecorded
          /\ rl' = record_completed_tasks(settings, rl, n, 0, now)
    /\ UNCHANGED <<settings, svcVars, now, clock_steps, rl_call, rl_trail, rt, apiVars, schedVars>>

\* the first get_current_usage
UsageFirst ==
    LET r == get_current_usage(settings, rl, now) IN
    /\ rl_trail.op = "none"
    /\ rl' = r.state
    /\ rl_trail' = [NoTrail EXCEPT !.op = "usage", !.first = CurrentOf(r.stats),
                                   !.first_at = now]
    /\ UNCHANGED <<settings, svcVars, now, clock_steps, rl_call, rt, apiVars, schedVars>>

\* record_completed_tasks(n) after it
UsageRecord ==
    /\ rl_trail.op = "usage"
    /\ \E n \in 1..MaxBatch : \E id_count \in {0, n} :
          /\ rl' = record_completed_tasks(settings, rl, n, id_count, now)
          /\ rl_trail' = [rl_trail EXCEPT !.op = "record", !.task_count = n]
    /\ UNCHANGED <<settings, svcVars, now, clock_steps, rl_call, rt, apiVars, schedVars>>

\* the second get_current_usage
UsageSecond ==
    LET r == get_current_usage(settings, rl, now) IN
    /\ rl_trail.op = "record"
    /\ rl' = r.state
    /\ rl_trail' = [rl_trail EXCEPT !.op = "again", !.second = CurrentOf(r.stats),
                                    !.second_at = now]
    /\ UNCHANGED <<settings, svcVars, now, clock_steps, rl_call, rt, apiVars, schedVars>>

UsageClock ==
    /\ rl_trail.op # "again"
    /\ clock_steps < MaxUsageClockSteps
    /\ \E d \in ClockJumps(settings, now) : now' = now + d
    /\ clock_steps' = clock_steps + 1
    /\ UNCHANGED <<settings, svcVars, rlVars, rt, apiVars, schedVars>>

NextUsage == UsagePriorRecord \/ UsageFirst \/ UsageRecord \/ UsageSecond \/ UsageClock

SpecUsage == InitRL /\ [][NextUsage]_vars

\* between the two snapshots no boundary of tier p was crossed: under the fixed
\* strategy both fall in one calendar window; under the rolling strategy no
\* completion inside the trailing window at the first has left it at the second
SameWindow(p) ==
    IF settings.rate_limit_strategy = "fixed"
    THEN get_fixed_window(p, rl_trail.first_at) = get_fixed_window(p, rl_trail.second_at)
    ELSE \A i \in 1..Len(rl.task_completions) :
            rl.task_completions[i] + period_seconds(p) > rl_trail.first_at
                => rl.task_completions[i] + period_seconds(p) > rl_trail.second_at

\* C14 as stated: usage() reports c, record(n) follows, usage() is called again
\* with no window boundary of the tier crossed: the second reports >= c + n
C14_RecordThenUsage ==
    rl_trail.op = "again" =>
        \A p \in DOMAIN rl_trail.second :
            SameWindow(p) => rl_trail.second[p] >= rl_trail.first[p] + rl_trail.task_count

-----------------------------------------------------------------------------
(* exponential_backoff_retry on its own: one run, func's outcome chosen at
   each call.  rt.outcomes[k] is what the k-th call of func did: "ok" or the
   class of the exception it raised; returned and raised name the call whose
   result or exception left the wrapper. *)

RetryableSets == {{"Exception"}, {"RequestError", "HTTPStatusError"}}
NonRetryableSets == {{"NonRetryableError"}, {}}

InitRetry ==
    /\ settings \in {[DefaultSettings EXCEPT !.max_retries = m] : m \in 0..MaxRetries}
    /\ now = StartTime
    /\ clock_steps = 0
    /\ rl = RateLimiterInit(now)
    /\ rl_call = NoCall
    /\ rl_trail = NoTrail
    /\ rt = RetryIdle
    /\ api = APIClientInit(settings)
    /\ calls = [k \in Callers |-> NoOperation]
    /\ SchedulerIdle
    /\ ServicesIdle

\* exponential_backoff_retry(func, max_retries, ...) is called
RetryCall ==
    /\ rt.phase = "idle"
    /\ \E m \in 0..MaxRetries, r \in RetryableSets, nr \in NonRetryableSets :
          LET eff == EffectiveMaxRetries(settings, m) IN
          rt' = [ RetryIdle EXCEPT
                    !.phase = IF 0 \in Attempts(eff) THEN "calling" ELSE "returned",
                    !.max_retries = eff,
                    !.retryable_exceptions = r,
                    !.non_retryable_exceptions = nr ]
    /\ UNCHANGED <<settings, svcVars, now, clock_steps, rl, rl_call, rl_trail, api, calls, schedVars>>

\* await func() returns
FuncReturns ==
    /\ rt.phase = "calling"
    /\ rt' = [ rt EXCEPT !.phase = "returned",
                         !.outcomes = Append(@, "ok"),
                         !.returned = Len(rt.outcomes) + 1 ]
    /\ UNCHANGED <<settings, svcVars, now, clock_steps, rl, rl_call, rl_trail, api, calls, schedVars>>

\* await func() raises an exception of class cls
FuncRaises ==
    /\ rt.phase = "calling"
    /\ \E cls \in ExceptionClasses :
          LET todo == OnException(cls, rt.attempt, rt.max_retries,
                                  rt.retryable_exceptions, rt.non_retryable_exceptions)
          IN  rt' = [ rt EXCEPT
                        !.outcomes = Append(@, cls),
                        !.phase = IF todo = "raise" THEN "raised" ELSE "sleeping",
                        !.raised = IF todo = "raise" THEN Len(rt.outcomes) + 1 ELSE 0,
                        !.delay = IF todo = "raise" THEN 0 ELSE BackoffDelay(rt.attempt) ]
    /\ UNCHANGED <<settings, svcVars, now, clock_steps, rl, rl_call, rl_trail, api, calls, schedVars>>

\* asyncio.sleep(delay) is over: the next iteration of the loop
RetrySleepDone ==
    /\ rt.phase = "sleeping"
    /\ rt' = [ rt EXCEPT
                 !.attempt = @ + 1,
                 !.delay = 0,
                 !.phase = IF rt.attempt + 1 \in Attempts(rt.max_retries)
                           THEN "calling" ELSE "returned" ]
    /\ UNCHANGED <<settings, svcVars, now, clock_steps, rl, rl_call, rl_trail, api, calls, schedVars>>

NextRetry == RetryCall \/ FuncReturns \/ FuncRaises \/ RetrySleepDone

SpecRetry == InitRetry /\ [][NextRetry]_vars

\* the k-th call of func raised an error the wrapper treats as retryable
RetryableOutcome(r, k) ==
    /\ r.outcomes[k] # "ok"
    /\ ~IsInstance(r.outcomes[k], r.non_retryable_exceptions)
    /\ IsInstance(r.outcomes[k], r.retryable_exceptions)

RetryDone(r) == r.phase \in {"returned", "raised"}

\* C8: with a budget max_retries >= 1, k <= max_retries retryable errors and
\* then a success return func's result after exactly k + 1 calls; retryable
\* errors on every call make exactly max_retries + 1 calls and re-raise the last
C8_RetryBudget ==
    (RetryDone(rt) /\ rt.max_retries >= 1) =>
        LET n == Len(rt.outcomes) IN
        /\ n >= 1
        /\ (\A k \in 1..(n - 1) : RetryableOutcome(rt, k)) =>
              /\ rt.outcomes[n] = "ok" =>
                    (rt.phase = "returned" /\ rt.returned = n /\ n - 1 <= rt.max_retries)
              /\ RetryableOutcome(rt, n) =>
                    (rt.phase = "raised" /\ rt.raised = n /\ n = rt.max_retries + 1)

\* the budget is used up to the last retry, and the last attempt succeeds
C8_Witness ==
    /\ rt.phase = "returned"
    /\ rt.max_retries >= 2
    /\ Len(rt.outcomes) = rt.max_retries + 1
    /\ \A k \in 1..rt.max_retries : RetryableOutcome(rt, k)

\* the k-th call of func raised an exception of a non-retryable class
NonRetryableOutcome(r, k) ==
    /\ r.outcomes[k] # "ok"
    /\ IsInstance(r.outcomes[k], r.non_retryable_exceptions)

\* C11: an exception of a non-retryable class leaves the wrapper at once: the
\* call that raised it is the last call of func, the wrapper has raised it and
\* no backoff sleep follows, whatever budget is left and even if the class
\* also matches retryable_exceptions
C11_NonRetryableRaisedAtOnce ==
    \A k \in 1..Len(rt.outcomes) :
        NonRetryableOutcome(rt, k) =>
            /\ k = Len(rt.outcomes)
            /\ rt.phase = "raised"
            /\ rt.raised = k
            /\ rt.delay = 0

\* after a retry, with budget left, func raised an exception that matches both
\* non_retryable_exceptions and retryable_exceptions
C11_Witness ==
    /\ Len(rt.outcomes) >= 2
    /\ NonRetryableOutcome(rt, Len(rt.outcomes))
    /\ IsInstance(rt.outcomes[Len(rt.outcomes)], rt.retryable_exceptions)
    /\ rt.attempt < rt.max_retries
    /\ rt.phase = "raised"

-----------------------------------------------------------------------------
(* The control-plane client on its own: one APIClient, several concurrent
   callers of _make_request, the control plane answering each request with
   any status or failing at the transport *)

HttpStatuses == {200, 404, 429, 500}
RequestResults == HttpStatuses \cup {TransportError}
\* two callers: caller 1 fetches, caller 2 posts a status
ApiCallers == {1, 2}
MethodOf(k) == IF k = 1 THEN "GET" ELSE "PATCH"

InitAPI ==
    /\ settings \in {[DefaultSettings EXCEPT !.max_retries = m,
                                             !.circuit_breaker_threshold = th] :
                        m \in 0..MaxRetries, th \in 1..MaxThreshold}
    /\ now = StartTime
    /\ clock_steps = 0
    /\ rl = RateLimiterInit(now)
    /\ rl_call = NoCall
    /\ rl_trail = NoTrail
    /\ rt = RetryIdle
    /\ api = APIClientInit(settings)
    /\ calls = [k \in Callers |-> NoOperation]
    /\ SchedulerIdle
    /\ ServicesIdle

APIClock ==
    /\ clock_steps < MaxApiClockSteps
    /\ \E d \in {1, RecoveryTimeout} : now' = now + d
    /\ clock_steps' = clock_steps + 1
    /\ UNCHANGED <<settings, svcVars, rlVars, rt, apiVars, schedVars>>

APIEnter ==
    /\ ~api.client
    /\ api' = APIClientEnter(api)
    /\ UNCHANGED <<settings, svcVars, now, clock_steps, rlVars, rt, calls, schedVars>>

APIStart ==
    /\ \E k \in ApiCallers : StartOperation(k, MethodOf(k))
    /\ UNCHANGED <<settings, svcVars, now, clock_steps, rlVars, rt, schedVars>>

APIResponse ==
    /\ \E k \in ApiCallers, status \in RequestResults : FinishRequest(k, status)
    /\ UNCHANGED <<settings, svcVars, now, clock_steps, rlVars, rt, schedVars>>

APIRetry ==
    /\ \E k \in ApiCallers : RetryOperation(k)
    /\ UNCHANGED <<settings, svcVars, now, clock_steps, rlVars, rt, schedVars>>

NextAPI == APIClock \/ APIEnter \/ APIStart \/ APIResponse \/ APIRetry

SpecAPI == InitAPI /\ [][NextAPI]_vars

-----------------------------------------------------------------------------
(* Claims about the circuit breaker and the control-plane client *)

\* C5: once failure_count has reached the threshold, a call made no later than
\* recovery_timeout after the last failure is rejected with the non-retryable
\* "Circuit breaker is open" error and issues no request
C5_TrippedBreakerRejects ==
    \A k \in ApiCallers :
        calls[k].tripped_at_call =>
            /\ calls[k].phase = "raised"
            /\ calls[k].exc = "NonRetryableError"
            /\ calls[k].reason = "circuit_open"
            /\ calls[k].requests = calls[k].attempt

\* the breaker opened while an operation was asleep between two attempts, and
\* the operation's next attempt was rejected
C5_Witness ==
    \E k \in ApiCallers :
        /\ calls[k].tripped_at_call
        /\ calls[k].attempt >= 1
        /\ api.circuit_breaker.state = "open"

\* C7 as stated: while the breaker is half-open at most one request admitted as
\* the trial is in flight
C7_OneTrialInHalfOpen ==
    api.circuit_breaker.state = "half-open" =>
        Cardinality({k \in ApiCallers : calls[k].phase = "inflight" /\ calls[k].trial}) <= 1

\* C9 as stated: a 5xx response is surfaced to the caller only when the retry
\* budget is used up
C9_ServerErrorRetried ==
    \A k \in ApiCallers :
        (calls[k].phase = "raised" /\ calls[k].status >= 500) =>
            calls[k].attempt = calls[k].max_retries

\* C10 as stated: a 429 response is retryable, every other 4xx response is
\* fatal and not retried
C10_Classification ==
    \A k \in ApiCallers :
        LET c == calls[k] IN
        /\ (c.status = 429 /\ c.phase \in {"sleeping", "raised"}) =>
              /\ c.exc # "NonRetryableError"
              /\ c.phase = "raised" => c.attempt = c.max_retries
        /\ (c.status \in 400..499 /\ c.status # 429 /\ c.phase \in {"sleeping", "raised"}) =>
              /\ c.exc = "NonRetryableError"
              /\ c.phase = "raised"

-----------------------------------------------------------------------------
(* scheduler.py: the polling tick and its workers. A step runs from one await
   that can suspend to the next: the event loop runs nothing else in between *)

\* the run of _poll_and_process_tasks is over
EndTick(t) == tick' = [t EXCEPT !.pc = "idle"]

\* the tick of client a, if its breaker is open, with the breaker's last failure
Opening(a) ==
    IF a.circuit_breaker.state = "open"
    THEN [tick |-> tick.number, at |-> a.circuit_breaker.last_failure_time]
    ELSE opened

\* lines 59-80: the shutdown check, a new APIClient, the pre-check with
\* n = concurrency_limit, the usage gauges, and the fetch up to its request
PollStart(max_ticks) ==
    /\ tick.pc = "idle"
    /\ tick.number < max_ticks
    /\ IF is_shutdown_requested
       THEN /\ tick' = [NoTick EXCEPT !.number = tick.number + 1, !.at = now, !.noop = TRUE]
            /\ UNCHANGED <<rl, api, calls, workers>>
       ELSE
           LET client      == APIClientEnter(APIClientInit(settings))
               rate_check  == check_all_limits(settings, rl, precheck_size(settings), now)
               usage_stats == get_current_usage(settings, rate_check.state, now)
               fetch       == BeginAttempt(client, NewOperation(settings, "GET"), now)
               t1          == [NoTick EXCEPT !.number = tick.number + 1, !.at = now]
               none        == [w \in Workers |-> NoWorker]
           IN  /\ rl' = usage_stats.state
               /\ workers' = none
               /\ IF ~rate_check.allowed
                  THEN /\ api' = client
                       /\ calls' = [k \in Callers |-> NoOperation]
                       /\ EndTick([t1 EXCEPT !.denied = rate_check.period_exceeded])
                  ELSE /\ api' = fetch[1]
                       /\ calls' = [k \in Callers |-> IF k = 0 THEN fetch[2] ELSE NoOperation]
                       /\ tick' = [t1 EXCEPT !.pc = "fetching"]
    /\ UNCHANGED <<settings, svcVars, now, clock_steps, rl_call, rl_trail, rt, shutdown, manager, semaphore, opened>>

\* lines 82-115: get_pending_tasks returned n tasks; the re-check with the batch
\* size and the launch of the workers
AfterFetch(n) ==
    LET batch      == actual_batch_size(settings, n)
        rate_check == check_all_limits(settings, rl, batch, now)
        t1         == [tick EXCEPT !.fetched = n]
        t2         == [t1 EXCEPT !.batch = batch]
    IN  IF n = 0
        THEN /\ EndTick(t1)
             /\ UNCHANGED <<rl, workers>>
        ELSE /\ rl' = rate_check.state
             /\ IF ~rate_check.allowed
                THEN /\ EndTick([t2 EXCEPT !.denied = rate_check.period_exceeded])
                     /\ UNCHANGED workers
                ELSE IF is_shutdown_requested
                THEN /\ EndTick(t2)
                     /\ UNCHANGED workers
                ELSE /\ tick' = [t2 EXCEPT !.pc = "gathering", !.launched = batch]
                     /\ workers' = [w \in Workers |->
                                      IF w <= batch THEN [NoWorker EXCEPT !.pc = "created"]
                                      ELSE NoWorker]

\* lines 126-127: the fetch raised; the tick logs the error and ends
FetchRaised ==
    /\ EndTick([tick EXCEPT !.raised = TRUE])
    /\ UNCHANGED <<rl, workers>>

\* where the tick goes once the fetch's attempt has moved on
FetchMoved(counts) ==
    CASE calls'[0].phase = "returned" -> \E n \in counts : AfterFetch(n)
      [] calls'[0].phase = "raised"   -> FetchRaised
      [] OTHER                        -> UNCHANGED <<rl, tick, workers>>

\* the control plane answers the fetch
FetchResponse(statuses, counts) ==
    /\ tick.pc = "fetching"
    /\ \E status \in statuses :
          /\ FinishRequest(0, status)
          /\ FetchMoved(counts)
    /\ opened' = Opening(api')
    /\ UNCHANGED <<settings, svcVars, now, clock_steps, rl_call, rl_trail, rt, shutdown, manager, semaphore>>

\* the backoff sleep of the fetch is over
FetchRetry ==
    /\ tick.pc = "fetching"
    /\ RetryOperation(0)
    /\ IF calls'[0].phase = "raised"
       THEN FetchRaised
       ELSE UNCHANGED <<rl, tick, workers>>
    /\ UNCHANGED <<settings, svcVars, now, clock_steps, rl_call, rl_trail, rt, shutdown, manager, semaphore, opened>>

AfterUpdateDetached(wk, c) == [wk EXCEPT !.pc = "done", !.delivered = (c.phase = "returned" /\ c.status = 200)]

\* update_task_status, seen from the worker: still in _make_request, or it
\* returned (True for a 200) and the worker returns, releasing its permit
AfterUpdate(wk, c) ==
    IF c.phase \in {"inflight", "sleeping"}
    THEN [wk EXCEPT !.pc = "updating"]
    ELSE [wk EXCEPT !.pc = "done", !.delivered = (c.phase = "returned" /\ c.status = 200)]

\* the permits after worker w went from wk to wk2
PermitsAfter(wk, wk2) ==
    semaphore + (IF HoldsPermit(wk) THEN 1 ELSE 0) - (IF HoldsPermit(wk2) THEN 1 ELSE 0)

\* lines 130-143: the event loop starts the workers in the order of their
\* creation; a worker gets its permit, checks for shutdown and looks for a
\* processor; without one it builds a failed TaskResult and posts it
WorkerStart(kinds) ==
    \E w \in Workers :
        /\ workers[w].pc = "created"
        /\ \A v \in 1..(w - 1) : workers[v].pc # "created"
        /\ semaphore > 0
        /\ IF is_shutdown_requested
           THEN /\ workers' = [workers EXCEPT ![w] = [@ EXCEPT !.pc = "done", !.skipped = TRUE]]
                /\ UNCHANGED <<api, calls>>
           ELSE \E has_processor \in kinds :
                  IF has_processor
                  THEN /\ workers' = [workers EXCEPT ![w] = [@ EXCEPT !.pc = "processing"]]
                       /\ UNCHANGED <<api, calls>>
                  ELSE /\ StartOperation(w, "PATCH")
                       /\ workers' = [workers EXCEPT ![w] =
                                        AfterUpdate(PostResult(@, "failed"), calls'[w])]
        /\ semaphore' = PermitsAfter(workers[w], workers'[w])
        /\ UNCHANGED <<settings, svcVars, now, clock_steps, rlVars, rt, shutdown, manager, tick, opened>>

\* lines 146-150: execute_with_error_handling returned a TaskResult and the
\* worker posts it; an exception that left it would leave the worker too, which
\* has no except clause
WorkerResult(outcomes) ==
    \E w \in Workers, outcome \in outcomes :
        LET result == execute_with_error_handling(outcome) IN
        /\ workers[w].pc = "processing"
        /\ IF result = "raises"
           THEN /\ workers' = [workers EXCEPT ![w] = [@ EXCEPT !.pc = "done", !.raised = TRUE]]
                /\ UNCHANGED <<api, calls>>
           ELSE /\ StartOperation(w, "PATCH")
                /\ workers' = [workers EXCEPT ![w] =
                                 AfterUpdate(PostResult(@, result), calls'[w])]
        /\ semaphore' = PermitsAfter(workers[w], workers'[w])
        /\ UNCHANGED <<settings, svcVars, now, clock_steps, rlVars, rt, shutdown, manager, tick, opened>>

\* the control plane answers a worker's status update
UpdateResponse(statuses) ==
    \E w \in Workers, status \in statuses :
        /\ workers[w].pc = "updating"
        /\ FinishRequest(w, status)
        /\ workers' = [workers EXCEPT ![w] = AfterUpdate(@, calls'[w])]
        /\ semaphore' = PermitsAfter(workers[w], workers'[w])
        /\ opened' = Opening(api')
        /\ UNCHANGED <<settings, svcVars, now, clock_steps, rlVars, rt, shutdown, manager, tick>>

GatherReturnedAtFirst == \E w \in 1..tick.launched : workers[w].pc = "done"

\* line 115: asyncio.gather(*processing_tasks, return_exceptions=True) returns
\* when every worker of the tick has returned or raised
GatherReturned == \A w \in 1..tick.launched : workers[w].pc = "done"

\* lines 115-124: gather returned; the completions are credited to the limiter
PollFinish ==
    LET n == successful_count(workers, tick.launched) IN
    /\ tick.pc = "gathering"
    /\ GatherReturned
    /\ rl' = IF n > 0 THEN record_completed_tasks(settings, rl, n, n, now) ELSE rl
    /\ EndTick([tick EXCEPT !.credited = n])
    /\ UNCHANGED <<settings, svcVars, now, clock_steps, rl_call, rl_trail, rt, apiVars, shutdown, manager, semaphore,
                   workers, opened>>

\* utils/shutdown.py: GracefulShutdown.shutdown sets the event
RequestShutdown ==
    /\ ~shutdown
    /\ shutdown' = TRUE
    /\ UNCHANGED <<settings, svcVars, now, clock_steps, rlVars, rt, apiVars, manager, semaphore, tick,
                   workers, opened>>

\* time passes
TickClock(max_steps, jumps) ==
    /\ clock_steps < max_steps
    /\ \E d \in jumps : now' = now + d
    /\ clock_steps' = clock_steps + 1
    /\ UNCHANGED <<settings, svcVars, rlVars, rt, apiVars, schedVars>>

-----------------------------------------------------------------------------
(* The scheduler with its limiter and its client: the control plane answers
   with any status and any number of pending tasks, a processor succeeds or
   fails, shutdown is requested at any moment *)

\* the control plane's answers: to the fetch, and to a status update
FetchStatuses == {200, 500, TransportError}
UpdateStatuses == {200, 500}
\* process() returns a completed or a failed TaskResult, or raises
ProcessOutcomes == {"succeeded", "failed", "raises"}

\* the answers to GET /api/ai-tasks/pending?limit=2*concurrency_limit: no task,
\* one, a full batch, the most the request allows
PendingCounts(cfg) == {0, 1, cfg.concurrency_limit, 2 * cfg.concurrency_limit}

InitSched ==
    /\ settings \in {[DefaultSettings EXCEPT !.concurrency_limit = c,
                                             !.rate_limit_strategy = st,
                                             !.limits = f] :
                        c \in 1..MaxConcurrency, st \in {"rolling"},
                        f \in {DefaultLimits, [DefaultLimits EXCEPT !["minute"] = MaxLimit]}}
    /\ now = StartTime
    /\ clock_steps = 0
    /\ rl = RateLimiterInit(now)
    /\ rl_call = NoCall
    /\ rl_trail = NoTrail
    /\ rt = RetryIdle
    /\ api = APIClientInit(settings)
    /\ calls = [k \in Callers |-> NoOperation]
    /\ SchedulerIdle
    /\ ServicesIdle

SchedPoll == PollStart(MaxTicks)
SchedFetchResponse == FetchResponse(FetchStatuses, PendingCounts(settings))
SchedWorkerStart == WorkerStart(BOOLEAN)
SchedWorkerResult == WorkerResult(ProcessOutcomes)
SchedUpdateResponse == UpdateResponse(UpdateStatuses)
SchedClock == TickClock(MaxClockSteps, {SecondsPerMinute})

NextSched ==
    \/ SchedPoll
    \/ SchedFetchResponse
    \/ FetchRetry
    \/ SchedWorkerStart
    \/ SchedWorkerResult
    \/ SchedUpdateResponse
    \/ PollFinish
    \/ RequestShutdown
    \/ SchedClock

SpecSched == InitSched /\ [][NextSched]_vars

-----------------------------------------------------------------------------
(* Claims about the scheduler *)

\* a tick has launched workers and has ended by crediting the limiter
TickCredited == tick.pc = "idle" /\ tick.launched > 0

\* C2 as stated: at the end of a tick the count credited to the limiter is the
\* number of launched tasks whose result is succeeded; a failed, an undelivered
\* or a skipped task is not in it. (Read either way for a succeeded task whose
\* update was not delivered: the count lies between the delivered successes and
\* the successes.)
C2_CreditsOnlySuccesses ==
    TickCredited =>
        /\ tick.credited <= Cardinality(Succeeded(workers))
        /\ tick.credited >= Cardinality({w \in Succeeded(workers) : workers[w].delivered})

\* C4: at most concurrency_limit workers hold a permit of the semaphore, and a
\* tick launches at most concurrency_limit workers whatever the fetch returned
C4_BoundedConcurrency ==
    /\ Cardinality(Holders(workers)) <= settings.concurrency_limit
    /\ Cardinality({w \in Workers : workers[w].pc # "none"}) <= settings.concurrency_limit
    /\ tick.launched <= settings.concurrency_limit

\* the fetch returned more tasks than concurrency_limit, and concurrency_limit
\* (two or more) workers hold every permit at once
C4_Witness ==
    /\ settings.concurrency_limit >= 2
    /\ tick.fetched > settings.concurrency_limit
    /\ Cardinality(Holders(workers)) = settings.concurrency_limit
    /\ semaphore = 0

\* C6 as stated: once a breaker has opened in a tick, no request to the control
\* plane is in flight in a later tick until recovery_timeout has passed since
\* the last failure
C6_BreakerSurvivesTicks ==
    (opened.tick # 0 /\ tick.number > opened.tick /\ now - opened.at <= RecoveryTimeout) =>
        \A k \in Callers : calls[k].phase # "inflight"

\* worker w has returned from _process_single_task
Returned(w) == workers[w].pc = "done"

Launches == \E w \in Workers : workers'[w].pc = "created" /\ workers[w].pc # "created"

\* a step takes a tick past its first shutdown check, to the limiter and the
\* fetch
TickProceeds ==
    /\ tick'.number # tick.number
    /\ ~tick'.noop \/ rl' # rl \/ calls' # calls \/ api' # api

\* C18: once the shutdown flag is set no step creates a worker, and a tick that
\* starts ends at once, without a call of the limiter and without a request
C18_NoLaunchAfterShutdown ==
    [][shutdown => (~Launches /\ ~TickProceeds)]_vars

\* the flag was set while the workers of a tick were waiting to start, they
\* returned at their shutdown check, and the next tick has come and gone
C18_Witness ==
    /\ shutdown
    /\ tick.noop /\ tick.pc = "idle" /\ tick.number > 1
    /\ \E w \in Workers : workers[w].skipped

-----------------------------------------------------------------------------
(* Rate-limit admission: a limit of 5 per minute under the fixed strategy, every
   other tier disabled; every fetch returns 3 pending tasks, every task
   succeeds and every update is delivered; the ticks fall in one calendar
   minute. concurrency_limit is 3, 4 or 5 (the default): with less the first
   tick cannot process 3 tasks, with more its pre-check is denied *)

AdmissionSettings(c) ==
    [DefaultSettings EXCEPT !.concurrency_limit = c,
                            !.rate_limit_strategy = "fixed",
                            !.limits = [DefaultLimits EXCEPT !["minute"] = 5]]

InitAdmission ==
    /\ settings \in {AdmissionSettings(c) : c \in 3..5}
    /\ now = StartTime
    /\ clock_steps = 0
    /\ rl = RateLimiterInit(now)
    /\ rl_call = NoCall
    /\ rl_trail = NoTrail
    /\ rt = RetryIdle
    /\ api = APIClientInit(settings)
    /\ calls = [k \in Callers |-> NoOperation]
    /\ SchedulerIdle
    /\ ServicesIdle

AdmissionPoll == PollStart(ScenarioTicks)
AdmissionFetchResponse == FetchResponse({200}, {3})
AdmissionWorkerStart == WorkerStart({TRUE})
AdmissionWorkerResult == WorkerResult({"succeeded"})
AdmissionUpdateResponse == UpdateResponse({200})
AdmissionClock == TickClock(MaxClockSteps, {1})

NextAdmission ==
    \/ AdmissionPoll
    \/ AdmissionFetchResponse
    \/ AdmissionWorkerStart
    \/ AdmissionWorkerResult
    \/ AdmissionUpdateResponse
    \/ PollFinish
    \/ AdmissionClock

SpecAdmission == InitAdmission /\ [][NextAdmission]_vars

\* tick k is over
TickOver(k) == tick.pc = "idle" /\ tick.number = k

\* C3 as stated: tick 1 processes 3 tasks, tick 2 processes 2, tick 3 processes
\* none and records a rate-limit-exceeded event for the tier minute
C3_AdmissionFillsTheLimit ==
    /\ TickOver(1) => Cardinality(Processed(workers)) = 3
    /\ TickOver(2) => Cardinality(Processed(workers)) = 2
    /\ TickOver(3) => Cardinality(Processed(workers)) = 0 /\ tick.denied = "minute"

\* C3 amended: tick 1 processes 3 tasks and credits them; tick 2 and tick 3
\* process none, each denied for the tier minute at its pre-check
C3_AdmissionAllOrNothing ==
    /\ TickOver(1) =>
          /\ Cardinality(Processed(workers)) = 3
          /\ tick.credited = 3
          /\ tick.denied = NoPeriod
    /\ (TickOver(2) \/ TickOver(3)) =>
          /\ Cardinality(Processed(workers)) = 0
          /\ tick.launched = 0
          /\ tick.fetched = 0
          /\ tick.denied = "minute"

\* the third tick is over, in the minute in which the first one credited its 3
\* tasks, after time has passed
C3_Witness ==
    /\ TickOver(3)
    /\ tick.denied = "minute"
    /\ rl.minute_counter = 3
    /\ now > StartTime
    /\ get_fixed_window("minute", now) = get_fixed_window("minute", StartTime)

-----------------------------------------------------------------------------
(* utils/shutdown.py and main.py: the signal, shutdown() with its gather over
   the running tasks and its cleanup callbacks, and main(), which waits for the
   event, stops the services and returns to asyncio.run *)

\* the callbacks of this program: TaskScheduler.start and MetricsServer.start
\* each register their stop
Callbacks == {"scheduler.stop", "metrics_server.stop"}

\* _running_tasks: add_task adds a worker at its creation, its done callback
\* discards it
running_tasks(ws) == {w \in Workers : ws[w].pc \in {"created", "processing", "updating"}}

\* the orders in which `for callback in self._cleanup_callbacks` can visit the
\* set S: a set iterates in the order of its hash table, not of insertion
Orders(S) ==
    {q \in [1..Cardinality(S) -> S] : \A x \in S : \E i \in DOMAIN q : q[i] = x}

DrainedAtOnce(m, ws) == TRUE

\* asyncio.gather(*self._running_tasks, return_exceptions=True) has returned:
\* every task it was given is done
Drained(m, ws) == \A w \in m.awaited : ws[w].pc \in {"done", "cancelled"}

\* lines 38-48: the loop over the callbacks, none of which suspends
Cleanup(m, order, ws) ==
    [m EXCEPT !.pc = "done", !.invoked = @ \o order,
              !.running_at_cleanup = @ \cup running_tasks(ws)]

\* the event loop is running: main() has not returned to asyncio.run
Running == manager.main # "returned"

\* add_cleanup_callback, called by the start() of a service before shutdown()
\* runs
Register(max) ==
    /\ Running
    /\ manager.pc = "none" /\ ~shutdown
    /\ Len(manager.registered) < max
    /\ \E cb \in Callbacks :
          manager' = [manager EXCEPT !.cleanup_callbacks = @ \cup {cb},
                                     !.registered = Append(@, cb)]
    /\ UNCHANGED <<settings, svcVars, now, clock_steps, rlVars, rt, apiVars, shutdown, semaphore,
                   tick, workers, opened>>

\* _signal_handler: a shutdown() task is created unless _is_shutting_down, which
\* shutdown() sets together with the event
Signal(max) ==
    /\ Running
    /\ manager.signals < max
    /\ manager' = [manager EXCEPT !.signals = @ + 1,
                                  !.pending = IF is_shutting_down THEN @ ELSE @ + 1,
                                  !.at_signal = IF manager.signals = 0
                                                THEN Holders(workers) ELSE @]
    /\ UNCHANGED <<settings, svcVars, now, clock_steps, rlVars, rt, apiVars, shutdown, semaphore,
                   tick, workers, opened>>

\* shutdown() up to its first suspension: a second run returns at once; the
\* first sets the flag and the event and, with no running task, goes on to the
\* callbacks
ShutdownRun ==
    /\ Running
    /\ manager.pending > 0
    /\ IF is_shutting_down
       THEN /\ manager' = [manager EXCEPT !.pending = @ - 1, !.reentries = @ + 1]
            /\ UNCHANGED shutdown
       ELSE LET m1 == [manager EXCEPT !.pending = @ - 1,
                                      !.flag_sets = @ + 1, !.drains = @ + 1,
                                      !.awaited = running_tasks(workers)]
            IN  /\ shutdown' = TRUE
                /\ IF running_tasks(workers) = {}
                   THEN \E order \in Orders(m1.cleanup_callbacks) :
                           manager' = Cleanup(m1, order, workers)
                   ELSE manager' = [m1 EXCEPT !.pc = "draining"]
    /\ UNCHANGED <<settings, svcVars, now, clock_steps, rlVars, rt, apiVars, semaphore, tick,
                   workers, opened>>

\* shutdown() after its gather: the callbacks
ShutdownDrained ==
    /\ Running
    /\ manager.pc = "draining"
    /\ Drained(manager, workers)
    /\ \E order \in Orders(manager.cleanup_callbacks) :
          manager' = Cleanup(manager, order, workers)
    /\ UNCHANGED <<settings, svcVars, now, clock_steps, rlVars, rt, apiVars, shutdown, semaphore,
                   tick, workers, opened>>

\* main.py lines 134-142: wait_for_shutdown returns once the event is set; main
\* cancels the two service tasks and awaits them
MainWake ==
    /\ manager.main = "waiting"
    /\ shutdown
    /\ manager' = [manager EXCEPT !.main = "stopping"]
    /\ UNCHANGED <<settings, svcVars, now, clock_steps, rlVars, rt, apiVars, shutdown, semaphore,
                   tick, workers, opened>>

\* a task that asyncio.run cancels: CancelledError is no Exception, so no except
\* clause of the tick, of a worker or of the client catches it
CancelledWorker(wk) ==
    IF wk.pc \in {"created", "processing", "updating"}
    THEN [wk EXCEPT !.pc = "cancelled"] ELSE wk

CancelledCall(c) ==
    IF c.phase \in {"inflight", "sleeping"}
    THEN [c EXCEPT !.phase = "raised", !.exc = "CancelledError", !.reason = "cancelled"]
    ELSE c

\* main.py lines 144 and 154: main returns, asyncio.run cancels every task that
\* is not done (the tick, its workers, shutdown() in its gather) and the process
\* exits; a cancelled worker leaves `async with self.semaphore`
MainReturn ==
    /\ manager.main = "stopping"
    /\ manager' = [manager EXCEPT !.main = "returned",
                                  !.pc = IF @ = "draining" THEN "cancelled" ELSE @,
                                  !.pending = 0]
    /\ workers' = [w \in Workers |-> CancelledWorker(workers[w])]
    /\ calls' = [k \in Callers |-> CancelledCall(calls[k])]
    /\ tick' = [tick EXCEPT !.pc = IF @ = "idle" THEN @ ELSE "cancelled"]
    /\ semaphore' = semaphore + Cardinality(Holders(workers))
    /\ UNCHANGED <<settings, svcVars, now, clock_steps, rlVars, rt, api, shutdown, opened>>

-----------------------------------------------------------------------------
(* The process from its start to its exit: the services register their
   callbacks, ticks fetch two tasks each and run them, signals arrive at any
   moment *)

InitShutdown ==
    /\ settings = [DefaultSettings EXCEPT !.concurrency_limit = 2]
    /\ now = StartTime
    /\ clock_steps = 0
    /\ rl = RateLimiterInit(now)
    /\ rl_call = NoCall
    /\ rl_trail = NoTrail
    /\ rt = RetryIdle
    /\ api = APIClientInit(settings)
    /\ calls = [k \in Callers |-> NoOperation]
    /\ SchedulerIdle
    /\ ServicesIdle

ShutdownRegister == Register(MaxRegistrations)
ShutdownSignal == Signal(MaxSignals)
ShutdownPoll == Running /\ PollStart(MaxTicks)
ShutdownFetchResponse == Running /\ FetchResponse({200}, {2})
ShutdownWorkerStart == Running /\ WorkerStart({TRUE})
ShutdownWorkerResult == Running /\ WorkerResult({"succeeded"})
ShutdownUpdateResponse == Running /\ UpdateResponse({200})
ShutdownPollFinish == Running /\ PollFinish

NextShutdown ==
    \/ ShutdownRegister
    \/ ShutdownSignal
    \/ ShutdownRun
    \/ ShutdownDrained
    \/ MainWake
    \/ MainReturn
    \/ ShutdownPoll
    \/ ShutdownFetchResponse
    \/ ShutdownWorkerStart
    \/ ShutdownWorkerResult
    \/ ShutdownUpdateResponse
    \/ ShutdownPollFinish

SpecShutdown == InitShutdown /\ [][NextShutdown]_vars

\* C17 as stated: when main has returned, every worker that held its permit at
\* the first signal has returned after one update_task_status call, and none
\* was cancelled
C17_InFlightWorkersFinish ==
    manager.main = "returned" =>
        \A w \in manager.at_signal :
            /\ workers[w].pc = "done"
            /\ workers[w].updates = 1

\* C19: when shutdown() runs its callbacks no registered task is running, and
\* every task its gather was given is done
C19_CleanupAfterDrain ==
    manager.pc = "done" =>
        /\ manager.running_at_cleanup = {}
        /\ running_tasks(workers) = {}
        /\ \A w \in manager.awaited : workers[w].pc = "done"

\* shutdown() found two workers running, waited for them, and then invoked a
\* callback
C19_Witness ==
    /\ manager.pc = "done"
    /\ Cardinality(manager.awaited) = 2
    /\ manager.invoked # <<>>
    /\ \A w \in manager.awaited : workers[w].updates = 1

\* the callbacks in the order of their first registration
RECURSIVE FirstRegistrations(_)
FirstRegistrations(seq) ==
    IF seq = <<>> THEN <<>>
    ELSE LET front == FirstRegistrations(SubSeq(seq, 1, Len(seq) - 1))
             last  == seq[Len(seq)]
         IN  IF \E i \in DOMAIN front : front[i] = last THEN front ELSE Append(front, last)

\* C20 as stated: shutdown() has invoked the callbacks in the order of their
\* registration
C20_CallbacksInRegistrationOrder ==
    manager.pc = "done" => manager.invoked = FirstRegistrations(manager.registered)

\* how often callback cb is in the sequence of invocations
Invocations(seq, cb) == Cardinality({i \in DOMAIN seq : seq[i] = cb})

-----------------------------------------------------------------------------
(* Model providers (services/embedding_providers.py)                        *)

MaxPersonalities == 2

ProcessingModes == {"openai", "ollama", "hybrid"}

Models == {"text-embedding-3-small", "nomic-embed-text"}

\* OpenAIEmbeddingProvider.SUPPORTED_MODELS
OpenAIEmbeddingModels ==
    {"text-embedding-3-small", "text-embedding-3-large", "text-embedding-ada-002"}

OpenAIEmbeddingSupports(model) == model \in OpenAIEmbeddingModels

\* OllamaEmbeddingProvider.SUPPORTED_MODELS
OllamaEmbeddingModels ==
    {"nomic-embed-text", "all-minilm", "mxbai-embed-large",
     "snowflake-arctic-embed", "bge-large", "bge-base"}

\* "return model in self.SUPPORTED_MODELS or True"
OllamaEmbeddingSupports(model) == model \in OllamaEmbeddingModels \/ TRUE

HybridEmbeddingSupports(model) == OllamaEmbeddingSupports(model) \/ OpenAIEmbeddingSupports(model)

\* EmbeddingProviderFactory.create_provider and the provider's supports_model
EmbeddingProviderSupports(mode, model) ==
    CASE mode = "openai" -> OpenAIEmbeddingSupports(model)
      [] mode = "ollama" -> OllamaEmbeddingSupports(model)
      [] mode = "hybrid" -> HybridEmbeddingSupports(model)

-----------------------------------------------------------------------------
(* Task processors (processors/, scheduler._process_single_task)           *)

\* models/task.py: TaskType
TaskTypes ==
    {"text_embedding", "identifying_data", "defining_topics",
     "defining_impact_area", "defining_severity"}

\* The processor class written for each kind (its can_process).
ProcessorOf ==
    [text_embedding |-> "TextEmbeddingProcessor",
     identifying_data |-> "IdentifyingDataProcessor",
     defining_topics |-> "DefiningTopicsProcessor",
     defining_impact_area |-> "DefiningImpactAreaProcessor",
     defining_severity |-> "DefiningSeverityProcessor"]

can_process(processor, type) == ProcessorOf[type] = processor

\* ProcessorFactory.__init__: self._processors
processors ==
    [type \in {"text_embedding", "identifying_data"} |-> ProcessorOf[type]]


NoProcessor == "None"

get_processor(table, type) ==
    IF type \notin DOMAIN table THEN NoProcessor
    ELSE IF ~can_process(table[type], type) THEN NoProcessor
    ELSE table[type]

\* The shapes of task.content the processors tell apart.
Contents == {"none", "empty", "str", "dict", "dict_no_model", "dict_bad_fields", "list"}

\* None of Optional[...]: a field is a sequence of at most one value.
None == <<>>

Some(v) == <<v>>

\* TaskResult(status=SUCCEEDED, output_data=...)
SucceededResult(output) ==
    [status |-> "succeeded", output_data |-> Some(output), error_message |-> None]

\* TaskResult(status=FAILED, error_message=...)
FailedResult(prefix, text) ==
    [status |-> "failed", output_data |-> None, error_message |-> Some(<<prefix, text>>)]

Contains(result, text) ==
    /\ result.error_message # None
    /\ \E i \in 1..Len(result.error_message[1]) : result.error_message[1][i] = text

\* The prefix each process() puts before the text of an exception.
FailurePrefix ==
    [TextEmbeddingProcessor |-> "Text embedding failed: ",
     IdentifyingDataProcessor |-> "Identifying data failed: ",
     DefiningTopicsProcessor |-> "Defining topics failed: ",
     DefiningImpactAreaProcessor |-> "Defining impact area failed: ",
     DefiningSeverityProcessor |-> "Severity calculation failed: "]

\* DefiningSeverityProcessor has no branch for a string content.
AcceptsString(processor) == processor # "DefiningSeverityProcessor"

supports_model(processor, mode, model) ==
    IF processor = "TextEmbeddingProcessor" THEN EmbeddingProviderSupports(mode, model)
    ELSE TRUE

\* The checks of process() before the provider is called: the text of the
\* ValueError raised, or "ok".
Validate(processor, task) ==
    IF task.content \in {"none", "empty"} THEN "Task content is missing or None"
    ELSE IF task.content = "str" /\ AcceptsString(processor) THEN
        IF supports_model(processor, task.mode, task.model) THEN "ok"
        ELSE "Requested model is not supported"
    ELSE IF task.content \in {"dict", "dict_no_model", "dict_bad_fields"} THEN
        IF task.content = "dict_no_model" THEN "Model is required in task content"
        ELSE IF task.content = "dict_bad_fields" THEN "validation error"
        ELSE IF supports_model(processor, task.mode, task.model) THEN "ok"
        ELSE "Requested model is not supported"
    ELSE "Unsupported content type"

\* What the provider call of a processor can do.
ProviderOutcomes(processor) ==
    IF processor = "IdentifyingDataProcessor" THEN {"ok"}
    ELSE {"ok", "RetryableError", "NonRetryableError"}

Names == {"ada", "bob"}

\* A personality as the provider returns it.
Personality(name) == [name |-> name]

\* A personality as batch_enrich_personalities returns it.
Enriched(personality, match) == [name |-> personality.name, wikidata |-> match]

Matches == {"null", "Q7259"}

\* the same branch, reporting the failure in the result
EnrichmentFailedReported(result) ==
    [result EXCEPT !.error_message = Some(<<"Wikidata enrichment failed: ", "error">>)]

\* identifying_data.py, the except branch around the enrichment: the
\* result keeps the personalities the provider returned.
EnrichmentFailed(result) == result

Tasks ==
    [type : TaskTypes, content : Contents, mode : ProcessingModes, model : Models]

NoTaskResult == [status |-> "none", output_data |-> None, error_message |-> None]

ProcessStart(task) ==
    [pc |-> "fetched", task |-> task, processor |-> NoProcessor,
     result |-> NoTaskResult, personalities |-> <<>>, enrichment |-> "none",
     sent |-> <<>>]

\* scheduler.py: processor_factory.get_processor(task) and the result made
\* when there is none
GetProcessor ==
    /\ proc.pc = "fetched"
    /\ LET processor == get_processor(processors, proc.task.type) IN
         proc' = IF processor = NoProcessor
                 THEN [proc EXCEPT !.pc = "update",
                        !.result = FailedResult("No processor available for task type: ",
                                                proc.task.type)]
                 ELSE [proc EXCEPT !.pc = "process", !.processor = processor]
    /\ UNCHANGED <<settings, now, clock_steps, rlVars, rt, apiVars, schedVars,
                   hybrid, wikidata, ory, conns, job>>

\* process(): the checks up to the provider call
ProcessValidate ==
    /\ proc.pc = "process"
    /\ LET checked == Validate(proc.processor, proc.task) IN
         proc' = IF checked = "ok" THEN [proc EXCEPT !.pc = "provider"]
                 ELSE [proc EXCEPT !.pc = "update",
                        !.result = FailedResult(FailurePrefix[proc.processor], checked)]
    /\ UNCHANGED <<settings, now, clock_steps, rlVars, rt, apiVars, schedVars,
                   hybrid, wikidata, ory, conns, job>>

\* process(): the provider call returns or raises
ProcessProvider(max) ==
    /\ proc.pc = "provider"
    /\ \E outcome \in ProviderOutcomes(proc.processor) :
         \/ /\ outcome = "RetryableError"
            /\ proc' = [proc EXCEPT !.pc = "update",
                         !.result = FailedResult("Retryable error: ", "provider")]
         \/ /\ outcome = "NonRetryableError"
            /\ proc' = [proc EXCEPT !.pc = "update",
                         !.result = FailedResult(FailurePrefix[proc.processor], "provider")]
         \/ /\ outcome = "ok"
            /\ proc.processor # "IdentifyingDataProcessor"
            /\ proc' = [proc EXCEPT !.pc = "update",
                         !.result = SucceededResult([model |-> proc.task.model])]
         \/ /\ outcome = "ok"
            /\ proc.processor = "IdentifyingDataProcessor"
            /\ \E n \in 0..max : \E names \in [1..n -> Names] :
                 LET personalities == [i \in 1..n |-> Personality(names[i])] IN
                 proc' = IF n = 0
                         THEN [proc EXCEPT !.pc = "update",
                                !.result = SucceededResult([personalities |-> <<>>])]
                         ELSE [proc EXCEPT !.pc = "enrich",
                                !.personalities = personalities]
    /\ UNCHANGED <<settings, now, clock_steps, rlVars, rt, apiVars, schedVars,
                   hybrid, wikidata, ory, conns, job>>

\* IdentifyingDataProcessor.process: batch_enrich_personalities returns its
\* list or raises, and the result is built
ProcessEnrich ==
    /\ proc.pc = "enrich"
    /\ \/ \E matches \in [1..Len(proc.personalities) -> Matches] :
            proc' = [proc EXCEPT !.pc = "update", !.enrichment = "returned",
                      !.result = SucceededResult(
                          [personalities |->
                              [i \in 1..Len(proc.personalities) |->
                                  Enriched(proc.personalities[i], matches[i])]])]
       \/ proc' = [proc EXCEPT !.pc = "update", !.enrichment = "raised",
                    !.result = EnrichmentFailed(
                        SucceededResult([personalities |-> proc.personalities]))]
    /\ UNCHANGED <<settings, now, clock_steps, rlVars, rt, apiVars, schedVars,
                   hybrid, wikidata, ory, conns, job>>

\* scheduler.py: api_client.update_task_status(task.id, result)
ProcessUpdate ==
    /\ proc.pc = "update"
    /\ proc' = [proc EXCEPT !.pc = "done", !.sent = Some(proc.result)]
    /\ UNCHANGED <<settings, now, clock_steps, rlVars, rt, apiVars, schedVars,
                   hybrid, wikidata, ory, conns, job>>

ProcessWorkerProvider == ProcessProvider(MaxPersonalities)

InitProcess ==
    /\ settings = DefaultSettings
    /\ now = StartTime
    /\ clock_steps = 0
    /\ rl = RateLimiterInit(now)
    /\ rl_call = NoCall
    /\ rl_trail = NoTrail
    /\ rt = RetryIdle
    /\ api = APIClientInit(settings)
    /\ calls = [k \in Callers |-> NoOperation]
    /\ SchedulerIdle
    /\ job = Idle
    /\ \E task \in Tasks : proc = ProcessStart(task)
    /\ hybrid = Idle
    /\ wikidata = Idle
    /\ ory = Idle
    /\ conns = Idle

NextProcess ==
    \/ GetProcessor
    \/ ProcessValidate
    \/ ProcessWorkerProvider
    \/ ProcessEnrich
    \/ ProcessUpdate

SpecProcess == InitProcess /\ [][NextProcess]_vars

\* The result handed to update_task_status, once it has been handed over.
Sent == proc.sent[1]

\* C22: every TaskResult passed to update_task_status has exactly one of
\* output_data and error_message set: a succeeded result has output_data and
\* no error_message, a failed result has error_message and no output_data.
C22_ExactlyOneOfOutputAndError ==
    proc.pc = "done" =>
        /\ Sent.status \in {"succeeded", "failed"}
        /\ Sent.status = "succeeded" =>
              (Sent.output_data # None /\ Sent.error_message = None)
        /\ Sent.status = "failed" =>
              (Sent.error_message # None /\ Sent.output_data = None)

\* A succeeded result was sent after the enrichment raised, and elsewhere a
\* failed one.
C22_Witness ==
    /\ proc.pc = "done"
    /\ proc.enrichment = "raised"
    /\ Sent.status = "succeeded"

\* C23: a task of each of the five kinds is routed to the processor of its
\* kind, and a defining-topics task whose content mapping has no 'model' key
\* gets a failed result whose message contains 'Model is required'.
C23_RoutedToProcessorOfItsKind ==
    /\ proc.pc \notin {"idle", "fetched"} =>
          proc.processor = ProcessorOf[proc.task.type]
    /\ (/\ proc.pc = "done"
        /\ proc.task.type = "defining_topics"
        /\ proc.task.content = "dict_no_model") =>
          /\ Sent.status = "failed"
          /\ Contains(Sent, "Model is required in task content")

\* C27: a succeeded identifying-data result has a 'wikidata' field on every
\* personality entry, also when the enrichment step as a whole failed.
C27_WikidataFieldOnEveryEntry ==
    (/\ proc.pc = "done"
     /\ proc.task.type = "identifying_data"
     /\ Sent.status = "succeeded") =>
        \A i \in 1..Len(Sent.output_data[1].personalities) :
            "wikidata" \in DOMAIN Sent.output_data[1].personalities[i]

-----------------------------------------------------------------------------
(* Hybrid providers (services/ai_provider.py HybridProvider,               *)
(* services/embedding_providers.py HybridEmbeddingProvider)                *)

HybridClasses == {"HybridProvider", "HybridEmbeddingProvider"}

\* The operations each hybrid class offers.
OperationsOf(class) ==
    IF class = "HybridProvider" THEN {"create_embedding", "chat_completion", "generate"}
    ELSE {"create_embedding"}

HybridModels == {"text-embedding-3-small", "nomic-embed-text", "o3-mini"}

\* ollama_provider.supports_model(model) of the class
LocalSupports(class, supported_models, model) ==
    IF class = "HybridProvider" THEN model \in supported_models
    ELSE OllamaEmbeddingSupports(model)

\* openai_provider.supports_model(model) of the class
CloudSupports(class, model) ==
    IF class = "HybridProvider" THEN TRUE
    ELSE OpenAIEmbeddingSupports(model)

CallOutcomes == {"ok", "RetryableError", "NonRetryableError"}

NoOutcome == "none"

HybridStart(class, operation, model, supported_models) ==
    [pc |-> "called", class |-> class, operation |-> operation, model |-> model,
     local_supports |-> LocalSupports(class, supported_models, model),
     local_calls |-> 0, cloud_calls |-> 0,
     local |-> NoOutcome, cloud |-> NoOutcome, result |-> NoOutcome]

\* The code after the local attempt: the cloud is called when it supports
\* the model, and otherwise NonRetryableError is raised.
Fallback(h) ==
    IF CloudSupports(h.class, h.model)
    THEN [h EXCEPT !.pc = "cloud", !.cloud_calls = @ + 1]
    ELSE [h EXCEPT !.pc = "returned", !.result = "NonRetryableError"]

\* the call enters: the local backend is tried when it supports the model
HybridEnter ==
    /\ hybrid.pc = "called"
    /\ hybrid' = IF hybrid.local_supports
                 THEN [hybrid EXCEPT !.pc = "local", !.local_calls = @ + 1]
                 ELSE Fallback(hybrid)
    /\ UNCHANGED <<settings, now, clock_steps, rlVars, rt, apiVars, schedVars,
                   proc, wikidata, ory, conns, job>>

\* the local call returns or raises
HybridLocal ==
    /\ hybrid.pc = "local"
    /\ \E outcome \in CallOutcomes :
         hybrid' = IF outcome = "ok"
                   THEN [hybrid EXCEPT !.pc = "returned", !.local = outcome,
                                      !.result = outcome]
                   ELSE Fallback([hybrid EXCEPT !.local = outcome])
    /\ UNCHANGED <<settings, now, clock_steps, rlVars, rt, apiVars, schedVars,
                   proc, wikidata, ory, conns, job>>

\* the cloud call returns or raises, and that is the outcome of the operation
HybridCloud ==
    /\ hybrid.pc = "cloud"
    /\ \E outcome \in CallOutcomes :
         hybrid' = [hybrid EXCEPT !.pc = "returned", !.cloud = outcome,
                                  !.result = outcome]
    /\ UNCHANGED <<settings, now, clock_steps, rlVars, rt, apiVars, schedVars,
                   proc, wikidata, ory, conns, job>>

InitHybrid ==
    /\ settings = DefaultSettings
    /\ now = StartTime
    /\ clock_steps = 0
    /\ rl = RateLimiterInit(now)
    /\ rl_call = NoCall
    /\ rl_trail = NoTrail
    /\ rt = RetryIdle
    /\ api = APIClientInit(settings)
    /\ calls = [k \in Callers |-> NoOperation]
    /\ SchedulerIdle
    /\ job = Idle
    /\ proc = Idle
    /\ \E class \in HybridClasses, model \in HybridModels :
         \E operation \in OperationsOf(class), supported_models \in SUBSET HybridModels :
            hybrid = HybridStart(class, operation, model, supported_models)
    /\ wikidata = Idle
    /\ ory = Idle
    /\ conns = Idle

NextHybrid ==
    \/ HybridEnter
    \/ HybridLocal
    \/ HybridCloud

SpecHybrid == InitHybrid /\ [][NextHybrid]_vars

\* C24: in hybrid mode, for every operation and every model the local
\* backend claims to support: when the local call fails, the operation is
\* performed once on the cloud backend and the cloud's result is the result;
\* when the local call succeeds, the cloud backend is never called.
C24_FallbackToCloud ==
    (hybrid.pc = "returned" /\ hybrid.local_supports) =>
        /\ hybrid.local = "ok" => (hybrid.cloud_calls = 0 /\ hybrid.result = "ok")
        /\ hybrid.local # "ok" =>
              /\ hybrid.cloud_calls = 1
              /\ hybrid.cloud # NoOutcome
              /\ hybrid.result = hybrid.cloud

-----------------------------------------------------------------------------
(* Knowledge-graph enrichment (services/wikidata_client.py)                *)

MaxMentions == 2

\* search_person(..., limit=5): the candidates one search returns at most
SearchLimit == 5

\* range(0, len(entity_ids_list), 50): the IDs one batch fetch carries at most
EntitiesPerFetch == 50

\* _extract_item_ids(claims, property_id, limit=5)
ItemLimit == 5

\* WikidataClient.ALLOWED_INSTANCE_TYPES: human, public company, online newspaper
ALLOWED_INSTANCE_TYPES == {"Q5", "Q891723", "Q1153191"}

\* The entities of the knowledge graph the searches can name: entity 1 is a
\* human, 2 a business, 3 has six instance-of statements of which the last
\* is public company, 4 is returned by the search and missing from the
\* fetch response; every other entity is a human.
InstanceOf(id) ==
    CASE id = 2 -> <<"Q4830453">>
      [] id = 3 -> <<"Q4830453", "Q6881511", "Q783794", "Q43229", "Q167037", "Q891723">>
      [] OTHER -> <<"Q5">>

Missing(id) == id = 4

Catalogue == 1..4

Range(seq) == {seq[i] : i \in 1..Len(seq)}

\* _extract_item_ids: the items of the first `limit` statements
extract_item_ids(statements, limit) ==
    SubSeq(statements, 1, IF Len(statements) < limit THEN Len(statements) ELSE limit)

\* has_allowed_type of the entity, as step 4 computes it
has_allowed_type(id) ==
    Range(extract_item_ids(InstanceOf(id), ItemLimit)) \cap ALLOWED_INSTANCE_TYPES # {}

SearchFailed == <<0>>

\* personality_entity_map[i]: the IDs of the mention's search result, none
\* when the search raised
EntityIdsOf(result) == IF result = SearchFailed THEN <<>> ELSE result

\* Step 4 for one mention: the first of its candidates that was fetched and
\* has an allowed type, 0 (None) when there is none.
RECURSIVE MatchedEntity(_, _)
MatchedEntity(entity_ids, entities_data) ==
    IF entity_ids = <<>> THEN 0
    ELSE IF Head(entity_ids) \in entities_data /\ has_allowed_type(Head(entity_ids))
         THEN Head(entity_ids)
         ELSE MatchedEntity(Tail(entity_ids), entities_data)

\* enriched_personalities
EnrichedPersonalities(w) ==
    [i \in 1..w.mentions |->
        [name |-> i, wikidata |-> MatchedEntity(EntityIdsOf(w.results[i]), w.entities_data)]]

\* list(all_entity_ids): the set in one of the orders the list can have
RECURSIVE Ascending(_)
Ascending(S) ==
    IF S = {} THEN <<>>
    ELSE LET least == CHOOSE x \in S : \A y \in S : x <= y
         IN <<least>> \o Ascending(S \ {least})

Reverse(seq) == [i \in 1..Len(seq) |-> seq[Len(seq) + 1 - i]]

ListOrders(S) == {Ascending(S), Reverse(Ascending(S))}

\* the whole list in one request
BatchLengthUnchunked(entity_ids_list) == Len(entity_ids_list)

\* entity_ids_list[batch_start:batch_start + 50]: the length of the next batch
BatchLength(entity_ids_list) == IF Len(entity_ids_list) < EntitiesPerFetch THEN Len(entity_ids_list) ELSE EntitiesPerFetch

\* The five candidates only mention i has.
Block(i) == [k \in 1..SearchLimit |-> 100 + SearchLimit * (i - 1) + k]

\* What one search can return for the small inputs: it raises, or returns
\* up to two entities of the catalogue.
SearchResults ==
    {SearchFailed} \cup {<<>>} \cup {<<a>> : a \in Catalogue}
        \cup {pair \in Catalogue \X Catalogue : pair[1] # pair[2]}

\* Enough mentions for their candidates to need a second batch fetch.
ManyMentions == EntitiesPerFetch \div SearchLimit + 1

EnrichStart(mentions, results) ==
    [pc |-> "called", mentions |-> mentions, results |-> results,
     searches |-> 0, detail_requests |-> 0, all_entity_ids |-> {},
     entity_ids_list |-> <<>>, fetches |-> <<>>, entities_data |-> {},
     returned |-> <<>>]

\* Steps 1 and 2: the searches are gathered and their IDs collected; with no
\* ID the result is built at once.
EnrichSearch ==
    /\ wikidata.pc = "called"
    /\ LET w == wikidata
           ids == UNION {Range(EntityIdsOf(w.results[i])) : i \in 1..w.mentions}
       IN IF w.mentions = 0 THEN wikidata' = [w EXCEPT !.pc = "returned"]
          ELSE IF ids = {}
               THEN wikidata' = [w EXCEPT !.pc = "returned", !.searches = w.mentions,
                                          !.returned = EnrichedPersonalities(w)]
               ELSE \E order \in ListOrders(ids) :
                       wikidata' = [w EXCEPT !.pc = "fetch", !.searches = w.mentions,
                                             !.all_entity_ids = ids,
                                             !.entity_ids_list = order]
    /\ UNCHANGED <<settings, now, clock_steps, rlVars, rt, apiVars, schedVars,
                   proc, hybrid, ory, conns, job>>

\* Step 3, one turn of the loop: get_entities_batch for the next IDs returns
\* the entities that exist, or raises; after the last batch step 4 builds
\* the result.
EnrichFetch ==
    /\ wikidata.pc = "fetch"
    /\ LET w == wikidata
           n == BatchLength(w.entity_ids_list)
           batch == SubSeq(w.entity_ids_list, 1, n)
           rest == SubSeq(w.entity_ids_list, n + 1, Len(w.entity_ids_list))
           sent == [w EXCEPT !.fetches = Append(@, Range(batch)),
                             !.entity_ids_list = rest]
           got == [sent EXCEPT !.entities_data =
                                  @ \cup {id \in Range(batch) : ~Missing(id)}]
       IN \/ wikidata' = [sent EXCEPT !.pc = "raised"]
          \/ wikidata' = IF rest = <<>>
                         THEN [got EXCEPT !.pc = "returned",
                                          !.returned = EnrichedPersonalities(got)]
                         ELSE got
    /\ UNCHANGED <<settings, now, clock_steps, rlVars, rt, apiVars, schedVars,
                   proc, hybrid, ory, conns, job>>

InitEnrich ==
    /\ settings = DefaultSettings
    /\ now = StartTime
    /\ clock_steps = 0
    /\ rl = RateLimiterInit(now)
    /\ rl_call = NoCall
    /\ rl_trail = NoTrail
    /\ rt = RetryIdle
    /\ api = APIClientInit(settings)
    /\ calls = [k \in Callers |-> NoOperation]
    /\ SchedulerIdle
    /\ job = Idle
    /\ proc = Idle
    /\ hybrid = Idle
    /\ \/ \E mentions \in 0..MaxMentions : \E results \in [1..mentions -> SearchResults] :
            wikidata = EnrichStart(mentions, results)
       \/ \E failed \in 0..ManyMentions :
            wikidata = EnrichStart(ManyMentions,
                          [i \in 1..ManyMentions |->
                              IF i = failed THEN SearchFailed ELSE Block(i)])
    /\ ory = Idle
    /\ conns = Idle

NextEnrich ==
    \/ EnrichSearch
    \/ EnrichFetch

SpecEnrich == InitEnrich /\ [][NextEnrich]_vars

\* The candidate the entry of a mention is to be built from: the first, in
\* search order, that was fetched and whose instance-of set meets the
\* allowed set; 0 when there is none or the search failed.
RECURSIVE FirstQualifying(_, _)
FirstQualifying(entity_ids, entities_data) ==
    IF entity_ids = <<>> THEN 0
    ELSE IF /\ Head(entity_ids) \in entities_data
            /\ Range(InstanceOf(Head(entity_ids))) \cap ALLOWED_INSTANCE_TYPES # {}
         THEN Head(entity_ids)
         ELSE FirstQualifying(Tail(entity_ids), entities_data)

\* C25: batch_enrich_personalities returns one entry per mention, in input
\* order; the 'wikidata' of each is built from the mention's first candidate
\* whose fetched instance-of set meets {Q5, Q891723, Q1153191} and is null
\* when there is none or its search failed, whatever the other searches did.
C25_FirstQualifyingCandidate ==
    wikidata.pc = "returned" =>
        /\ Len(wikidata.returned) = wikidata.mentions
        /\ \A i \in 1..wikidata.mentions :
              /\ wikidata.returned[i].name = i
              /\ wikidata.returned[i].wikidata =
                    IF wikidata.results[i] = SearchFailed THEN 0
                    ELSE FirstQualifying(wikidata.results[i], wikidata.entities_data)

Finished == wikidata.pc \in {"returned", "raised"}

\* ceil(|S| / 50)
BatchesNeeded == (Cardinality(wikidata.all_entity_ids) + EntitiesPerFetch - 1) \div EntitiesPerFetch

\* Every batch fetch carried at most 50 IDs of S and no ID was fetched twice.
BatchesWellFormed ==
    /\ \A k \in 1..Len(wikidata.fetches) :
          /\ Cardinality(wikidata.fetches[k]) <= EntitiesPerFetch
          /\ wikidata.fetches[k] \subseteq wikidata.all_entity_ids
    /\ \A k, l \in 1..Len(wikidata.fetches) :
          k # l => wikidata.fetches[k] \cap wikidata.fetches[l] = {}

\* C26 as stated: for M mentions whose searches return the set S of IDs,
\* exactly M search requests and exactly ceil(|S|/50) batch fetches are
\* issued, each with at most 50 IDs and every ID of S in exactly one, and no
\* per-candidate detail request.
C26_ExactRequestCount ==
    Finished =>
        /\ wikidata.searches = wikidata.mentions
        /\ Len(wikidata.fetches) = BatchesNeeded
        /\ BatchesWellFormed
        /\ UNION Range(wikidata.fetches) = wikidata.all_entity_ids
        /\ wikidata.detail_requests = 0

\* C26, amended: exactly M search requests and no detail request; the batch
\* fetches carry at most 50 IDs each and no ID twice; when no batch fetch
\* fails there are exactly ceil(|S|/50) of them and they cover S, and when
\* one fails the batches after it are not fetched.
C26_RequestCountUnlessFetchFails ==
    Finished =>
        /\ wikidata.searches = wikidata.mentions
        /\ wikidata.detail_requests = 0
        /\ BatchesWellFormed
        /\ wikidata.pc = "returned" =>
              /\ Len(wikidata.fetches) = BatchesNeeded
              /\ UNION Range(wikidata.fetches) = wikidata.all_entity_ids
        /\ wikidata.pc = "raised" =>
              /\ Len(wikidata.fetches) >= 1
              /\ Len(wikidata.fetches) <= BatchesNeeded

\* More than 50 candidates were fetched in two batches.
C26_Witness ==
    /\ wikidata.pc = "returned"
    /\ wikidata.searches = ManyMentions
    /\ Len(wikidata.fetches) = 2
    /\ Cardinality(wikidata.all_entity_ids) > EntitiesPerFetch

-----------------------------------------------------------------------------
(* OAuth2 token cache (services/ory_auth.py)                               *)

MaxAuthCallers == 3

MaxAuthClockSteps == 1

\* "Add 60 second buffer before expiry"
ExpiryBuffer == 60

AuthCallers == 1..MaxAuthCallers

\* token_data["expires_in"]: a token that is inside the buffer from the
\* start, and the default of one hour
ExpiresIn == {30, 3600}

NoToken == 0

NoCaller == 0

NoAuthCall == [pc |-> "idle", acquired_at |-> NoTime, requests |-> 0, token |-> NoToken,
               waited_for |-> NoToken, waited_expiry |-> NoTime]

OryAuthServiceInit ==
    [pc |-> "ready", access_token |-> NoToken, token_expires_at |-> NoTime,
     token_lock |-> NoCaller, issued |-> 0, callers |-> [c \in AuthCallers |-> NoAuthCall]]

\* the check with no cached token ever taken for valid
NeverValid(o, t) == FALSE

\* _is_token_valid
is_token_valid(o, t) == o.access_token # NoToken /\ o.token_expires_at # NoTime /\ t < o.token_expires_at - ExpiryBuffer

\* The token requests in flight.
InFlight(o) == {c \in AuthCallers : o.callers[c].pc = "request"}

\* get_access_token inside the lock: the cached token is returned, or the
\* token request is sent.
Locked(o, c, t) ==
    IF is_token_valid(o, t)
    THEN [o EXCEPT !.callers[c].pc = "returned", !.callers[c].acquired_at = t,
                   !.callers[c].token = o.access_token]
    ELSE [o EXCEPT !.callers[c].pc = "request", !.callers[c].acquired_at = t,
                   !.callers[c].requests = @ + 1, !.token_lock = c]

\* get_access_token is called: the lock is taken when it is free, and
\* otherwise the caller waits for it
AuthCall ==
    /\ ory.pc = "ready"
    /\ \E c \in AuthCallers :
         /\ ory.callers[c].pc = "idle"
         /\ ory' = IF ory.token_lock = NoCaller THEN Locked(ory, c, now)
                   ELSE [ory EXCEPT !.callers[c].pc = "waiting"]
    /\ UNCHANGED <<settings, now, clock_steps, rlVars, rt, apiVars, schedVars,
                   proc, hybrid, wikidata, conns, job>>

\* a waiting caller gets the lock
AuthAcquire ==
    /\ ory.pc = "ready"
    /\ ory.token_lock = NoCaller
    /\ \E c \in AuthCallers :
         /\ ory.callers[c].pc = "waiting"
         /\ ory' = Locked(ory, c, now)
    /\ UNCHANGED <<settings, now, clock_steps, rlVars, rt, apiVars, schedVars,
                   proc, hybrid, wikidata, conns, job>>

\* the issuer answers the token request: the token is cached and returned,
\* or the request fails and the caller raises; the lock is released
AuthResponse ==
    /\ ory.pc = "ready"
    /\ \E c \in AuthCallers :
         /\ ory.callers[c].pc = "request"
         /\ \/ \E expires_in \in ExpiresIn :
                 LET token == ory.issued + 1
                     waiting == {w \in AuthCallers : ory.callers[w].pc = "waiting"}
                 IN ory' = [ory EXCEPT
                       !.access_token = token,
                       !.token_expires_at = now + expires_in,
                       !.issued = token,
                       !.token_lock = NoCaller,
                       !.callers = [w \in AuthCallers |->
                           IF w = c THEN [@[w] EXCEPT !.pc = "returned", !.token = token]
                           ELSE IF w \in waiting
                                THEN [@[w] EXCEPT !.waited_for = token,
                                                  !.waited_expiry = now + expires_in]
                                ELSE @[w]]]
            \/ ory' = [ory EXCEPT !.token_lock = NoCaller, !.callers[c].pc = "raised"]
    /\ UNCHANGED <<settings, now, clock_steps, rlVars, rt, apiVars, schedVars,
                   proc, hybrid, wikidata, conns, job>>

AuthClock ==
    /\ ory.pc = "ready"
    /\ clock_steps < MaxAuthClockSteps
    /\ \E jump \in {1, SecondsPerHour} : now' = now + jump
    /\ clock_steps' = clock_steps + 1
    /\ UNCHANGED <<settings, rlVars, rt, apiVars, schedVars, svcVars>>

InitAuth ==
    /\ settings = DefaultSettings
    /\ now = StartTime
    /\ clock_steps = 0
    /\ rl = RateLimiterInit(now)
    /\ rl_call = NoCall
    /\ rl_trail = NoTrail
    /\ rt = RetryIdle
    /\ api = APIClientInit(settings)
    /\ calls = [k \in Callers |-> NoOperation]
    /\ SchedulerIdle
    /\ job = Idle
    /\ proc = Idle
    /\ hybrid = Idle
    /\ wikidata = Idle
    /\ ory = OryAuthServiceInit
    /\ conns = Idle

NextAuth ==
    \/ AuthCall
    \/ AuthAcquire
    \/ AuthResponse
    \/ AuthClock

SpecAuth == InitAuth /\ [][NextAuth]_vars

\* C28: whatever the number of concurrent get_access_token callers, at most
\* one token request is in flight at any instant, and a caller that was
\* waiting while a refresh succeeded returns the refreshed token without a
\* request of its own when it gets the lock more than 60 s before that
\* token expires.
C28_SingleFlightRefresh ==
    /\ Cardinality(InFlight(ory)) <= 1
    /\ \A c \in AuthCallers :
          LET call == ory.callers[c] IN
          (/\ call.waited_for # NoToken
           /\ call.acquired_at # NoTime
           /\ call.acquired_at < call.waited_expiry - ExpiryBuffer) =>
              /\ call.pc = "returned"
              /\ call.token = call.waited_for
              /\ call.requests = 0

\* Two callers waited while the third refreshed, and both returned its token.
C28_Witness ==
    /\ ory.issued = 1
    /\ ory.callers[1].pc = "returned" /\ ory.callers[1].requests = 1
    /\ \A c \in {2, 3} :
          /\ ory.callers[c].pc = "returned"
          /\ ory.callers[c].waited_for = 1
          /\ ory.callers[c].token = 1
          /\ ory.callers[c].requests = 0

-----------------------------------------------------------------------------
(* Concurrent use of the rate limiter's database: get_current_usage from  *)
(* the /health handler (server.py) while the scheduler records             *)

MaxReaders == 2

MaxRecords == 2

Readers == 1..MaxReaders

\* self.limits in the order of its stored tiers
StoredTiers == <<"day", "week", "month">>

FixedSettings ==
    [DefaultSettings EXCEPT
        !.rate_limit_strategy = "fixed",
        !.limits = [p \in PeriodSet |-> IF p \in DatabasePeriods THEN MaxLimit ELSE 0]]

NoReader == [pc |-> "idle", tier |-> 0, at |-> NoTime]

NoWriter == [pc |-> "idle", task_count |-> 0, at |-> NoTime]

\* The count the table holds for the window that contains t.
StoredCount(s, p, t) ==
    IF RowMatches(s.rate_limits[p], t) THEN s.rate_limits[p].current_count ELSE 0

\* get_current_usage is called by a reader: now is read once
ReadBegin ==
    /\ conns.pc = "open"
    /\ \E r \in Readers :
         /\ conns.readers[r].pc = "idle"
         /\ conns' = [conns EXCEPT !.readers[r] = [pc |-> "select", tier |-> 1, at |-> now]]
    /\ rl' = initialize(rl)
    /\ UNCHANGED <<settings, now, clock_steps, rl_call, rl_trail, rt, apiVars, schedVars,
                   proc, hybrid, wikidata, ory, job>>

\* _get_current_usage_database, fixed strategy: the SELECT and fetchone; a
\* row found is the usage, and with no row the INSERT is still to come
ReadSelect ==
    /\ conns.pc = "open"
    /\ \E r \in Readers :
         LET reader == conns.readers[r]
             found == RowMatches(rl.rate_limits[StoredTiers[reader.tier]], reader.at)
         IN /\ reader.pc = "select"
            /\ conns' = [conns EXCEPT !.readers[r] =
                  IF ~found THEN [reader EXCEPT !.pc = "insert"]
                  ELSE IF reader.tier = Len(StoredTiers) THEN [reader EXCEPT !.pc = "done"]
                  ELSE [reader EXCEPT !.tier = @ + 1]]
    /\ UNCHANGED <<settings, now, clock_steps, rlVars, rt, apiVars, schedVars,
                   proc, hybrid, wikidata, ory, job>>

\* _get_current_usage_database: INSERT OR REPLACE of a row with count 0 and
\* the commit; SQLite makes it wait while another connection's transaction
\* is open
ReadInsert ==
    /\ conns.pc = "open"
    /\ conns.writer.pc # "transaction"
    /\ \E r \in Readers :
         LET reader == conns.readers[r]
             p == StoredTiers[reader.tier]
             w == get_window_boundaries(settings, p, reader.at)
         IN /\ reader.pc = "insert"
            /\ rl' = [rl EXCEPT !.rate_limits[p] =
                        [current_count |-> 0, window_start |-> w[1], window_end |-> w[2]]]
            /\ conns' = [conns EXCEPT !.readers[r] =
                  IF reader.tier = Len(StoredTiers) THEN [reader EXCEPT !.pc = "done"]
                  ELSE [reader EXCEPT !.pc = "select", !.tier = @ + 1]]
    /\ UNCHANGED <<settings, now, clock_steps, rl_call, rl_trail, rt, apiVars, schedVars,
                   proc, hybrid, wikidata, ory, job>>

\* record_completed_tasks up to its first INSERT, which opens the
\* transaction
RecordBegin ==
    /\ conns.pc = "open"
    /\ conns.writer.pc = "idle"
    /\ conns.records < MaxRecords
    /\ \E task_count \in 1..MaxRecorded :
         conns' = [conns EXCEPT !.writer = [pc |-> "transaction", task_count |-> task_count,
                                            at |-> now],
                                !.records = @ + 1]
    /\ UNCHANGED <<settings, now, clock_steps, rlVars, rt, apiVars, schedVars,
                   proc, hybrid, wikidata, ory, job>>

\* record_completed_tasks: the statements of the transaction and its commit
RecordCommit ==
    /\ conns.pc = "open"
    /\ conns.writer.pc = "transaction"
    /\ rl' = record_completed_tasks(settings, rl, conns.writer.task_count, 0, conns.writer.at)
    /\ conns' = [conns EXCEPT !.writer = NoWriter,
                              !.recorded = @ + conns.writer.task_count]
    /\ UNCHANGED <<settings, now, clock_steps, rl_call, rl_trail, rt, apiVars, schedVars,
                   proc, hybrid, wikidata, ory, job>>

InitConcurrent ==
    /\ settings = FixedSettings
    /\ now = StartTime
    /\ clock_steps = 0
    /\ rl = RateLimiterInit(now)
    /\ rl_call = NoCall
    /\ rl_trail = NoTrail
    /\ rt = RetryIdle
    /\ api = APIClientInit(settings)
    /\ calls = [k \in Callers |-> NoOperation]
    /\ SchedulerIdle
    /\ job = Idle
    /\ proc = Idle
    /\ hybrid = Idle
    /\ wikidata = Idle
    /\ ory = Idle
    /\ conns = [pc |-> "open", readers |-> [r \in Readers |-> NoReader],
                writer |-> NoWriter, records |-> 0, recorded |-> 0]

NextConcurrent ==
    \/ ReadBegin
    \/ ReadSelect
    \/ ReadInsert
    \/ RecordBegin
    \/ RecordCommit

SpecConcurrent == InitConcurrent /\ [][NextConcurrent]_vars

\* C29: with get_current_usage running while record_completed_tasks runs
\* under the fixed strategy, in every interleaving the stored day, week and
\* month counts never decrease within the window and hold every recorded
\* completion.
C29_NoCompletionLost ==
    conns.pc = "open" =>
        \A p \in DatabasePeriods : StoredCount(rl, p, now) = conns.recorded

-----------------------------------------------------------------------------
(* Restart of the process with the same storage path                       *)

\* a new process whose storage path names an empty database
RestartedEmpty(s, t) == RateLimiterInit(t)

\* RateLimiter.__init__ in the new process: the counters in memory start at
\* 0 and the tables of the database file are as the old process left them
Restarted(s, t) == [RateLimiterInit(t) EXCEPT !.rate_limits = s.rate_limits, !.task_completions = s.task_completions]

\* the process is restarted; the usage each tier held just before it is
\* kept for comparison
Restart ==
    /\ rl_trail.op = "none"
    /\ rl' = Restarted(rl, now)
    /\ rl_trail' = [NoTrail EXCEPT !.op = "restart",
                                   !.first = UsageBefore(settings, rl, now),
                                   !.first_at = now,
                                   !.task_count = Len(rl.task_completions)]
    /\ rl_call' = NoCall
    /\ UNCHANGED <<settings, svcVars, now, clock_steps, rt, api, calls, schedVars>>

\* a tier kept in memory together with a stored tier, and two stored tiers
RestartLimits ==
    {[p \in PeriodSet |-> IF p \in on THEN MaxLimit ELSE 0] :
        on \in {{"minute", "day"}, {"hour", "week"}, {"minute", "month"}, {"day", "month"}}}

InitRestart ==
    /\ settings \in {[DefaultSettings EXCEPT !.rate_limit_strategy = st, !.limits = f] :
                        st \in {"rolling", "fixed"}, f \in RestartLimits}
    /\ now = StartTime
    /\ clock_steps = 0
    /\ rl = RateLimiterInit(now)
    /\ rl_call = NoCall
    /\ rl_trail = NoTrail
    /\ rt = RetryIdle
    /\ api = APIClientInit(settings)
    /\ calls = [k \in Callers |-> NoOperation]
    /\ SchedulerIdle
    /\ ServicesIdle

NextRestart == AdvanceClock \/ RLCheck \/ RLRecord \/ Restart

SpecRestart == InitRestart /\ [][NextRestart]_vars

\* A check_all_limits call made after the restart, before anything was
\* recorded in the new process.
CheckAfterRestart ==
    /\ rl_trail.op = "restart"
    /\ rl_call.op = "check"
    /\ Len(rl.task_completions) = rl_trail.task_count

\* C30: under the fixed strategy, a check_all_limits call after a restart
\* with the same storage path observes, for each of day, week and month
\* whose window still is the one of the instant of the restart, the usage
\* held just before the restart, and observes 0 for minute and hour.
C30_StoredCountsSurviveRestart ==
    (CheckAfterRestart /\ settings.rate_limit_strategy = "fixed") =>
        \A p \in DOMAIN rl_call.current_usage :
            IF p \in MemoryPeriods THEN rl_call.current_usage[p] = 0
            ELSE get_fixed_window(p, rl_trail.first_at) = get_fixed_window(p, rl_call.at) =>
                    rl_call.current_usage[p] = rl_trail.first[p]

\* Before the restart the minute and the day tier held a completion; a check
\* later in the same day sees the day's count and an empty minute.
C30_Witness ==
    /\ CheckAfterRestart
    /\ settings.rate_limit_strategy = "fixed"
    /\ DOMAIN rl_call.current_usage = {"minute", "day"}
    /\ rl_trail.first["minute"] >= 1
    /\ rl_trail.first["day"] >= 1
    /\ rl_call.at > rl_trail.first_at
    /\ rl_call.current_usage["day"] = rl_trail.first["day"]
    /\ rl_call.current_usage["minute"] = 0

-----------------------------------------------------------------------------
(* The circuit breaker through its states: the call that leaves open, the
   calls made while open and the calls made while closed *)

\* caller k enters CircuitBreaker.call in this step: a first attempt or the
\* attempt after a backoff sleep, on an initialized client
EntersBreaker(k) ==
    /\ api.client
    /\ calls[k].phase # "inflight"
    /\ calls'[k] # calls[k]

\* the request of caller k ends in this step
RequestEnds(k) ==
    /\ calls[k].phase = "inflight"
    /\ calls'[k].phase # "inflight"

\* C31 as stated: the first call made more than recovery_timeout after the last
\* failure moves the breaker from open to half-open and issues its request;
\* when that request succeeds the breaker is closed with failure_count 0 and
\* last_failure_time cleared, when it fails the breaker is open with
\* last_failure_time refreshed
C31_ProbeSettlesBreaker ==
    [][\A k \in ApiCallers :
          /\ (EntersBreaker(k) /\ api.circuit_breaker.state = "open"
                 /\ RecoveryElapsed(api.circuit_breaker, now)) =>
                /\ api'.circuit_breaker.state = "half-open"
                /\ calls'[k].phase = "inflight"
                /\ calls'[k].requests >= 1
          /\ (RequestEnds(k) /\ calls[k].probe) =>
                IF calls'[k].phase = "returned"
                THEN /\ api'.circuit_breaker.state = "closed"
                     /\ api'.circuit_breaker.failure_count = 0
                     /\ api'.circuit_breaker.last_failure_time = NoTime
                ELSE /\ api'.circuit_breaker.state = "open"
                     /\ api'.circuit_breaker.last_failure_time = now]_vars

\* caller k's attempt is turned away by the open breaker in this step
Rejected(k) ==
    /\ EntersBreaker(k)
    /\ calls'[k].phase = "raised"
    /\ calls'[k].reason = "circuit_open"

\* C40: a call rejected by the open breaker leaves state, failure_count and
\* last_failure_time as they were; last_failure_time changes only in a step in
\* which a request ends; and a call made with the breaker open more than
\* recovery_timeout after last_failure_time is let through, whatever was
\* rejected before it
C40_RejectionLeavesBreaker ==
    [][/\ \A k \in ApiCallers :
             /\ Rejected(k) => api'.circuit_breaker = api.circuit_breaker
             /\ (EntersBreaker(k) /\ api.circuit_breaker.state = "open"
                    /\ now - api.circuit_breaker.last_failure_time
                           > api.circuit_breaker.recovery_timeout) =>
                   /\ calls'[k].phase = "inflight"
                   /\ calls'[k].probe
       /\ api'.circuit_breaker.last_failure_time # api.circuit_breaker.last_failure_time =>
             \E k \in ApiCallers : RequestEnds(k)]_vars

\* a call was rejected one second after the failure that opened the breaker,
\* and a call made 61 seconds after that failure is in flight as the trial
C40_Witness ==
    \E j \in ApiCallers, k \in ApiCallers :
        /\ calls[j].phase = "raised"
        /\ calls[j].reason = "circuit_open"
        /\ calls[k].phase = "inflight"
        /\ calls[k].probe
        /\ api.circuit_breaker.state = "half-open"
        /\ now = api.circuit_breaker.last_failure_time + RecoveryTimeout + 1
        /\ clock_steps = 2

\* the breaker is closed with fewer failures counted than its threshold
ClosedBelowThreshold(cb) == cb.state = "closed" => cb.failure_count < cb.failure_threshold

\* C38: with the breaker closed, a request that succeeds leaves failure_count
\* and the state as they are; a request that ends in any exception (a 4xx, a
\* 5xx or a transport error) adds one to failure_count and opens the breaker
\* exactly when the count reaches the threshold; failure_count < threshold
\* whenever the breaker is closed
C38_ClosedCountsEveryFailure ==
    [][/\ ClosedBelowThreshold(api.circuit_breaker)
       /\ ClosedBelowThreshold(api'.circuit_breaker)
       /\ \A k \in ApiCallers :
             (RequestEnds(k) /\ api.circuit_breaker.state = "closed") =>
                IF calls'[k].phase = "returned"
                THEN api'.circuit_breaker = api.circuit_breaker
                ELSE /\ api'.circuit_breaker.failure_count
                           = api.circuit_breaker.failure_count + 1
                     /\ api'.circuit_breaker.state = "open"
                           <=> api'.circuit_breaker.failure_count
                                  = api.circuit_breaker.failure_threshold
                     /\ api'.circuit_breaker.state \in {"open", "closed"}]_vars

\* threshold 2: caller 1's first request failed at the transport, its retry
\* succeeded with the breaker closed, and the failure of caller 2's request
\* has opened the breaker at a count of 2
C38_Witness ==
    /\ api.circuit_breaker.failure_threshold = 2
    /\ api.circuit_breaker.state = "open"
    /\ api.circuit_breaker.failure_count = 2
    /\ calls[1].phase = "returned"
    /\ calls[1].attempt = 1
    /\ calls[1].requests = 2
    /\ calls[2].phase = "raised"
    /\ calls[2].status = 404
    /\ calls[2].requests = 1
    /\ clock_steps = 0

\* caller k's backoff sleep ends in this step: the next attempt of its call
RetryAttempt(k) ==
    /\ calls[k].phase = "sleeping"
    /\ calls'[k] # calls[k]

\* the attempt of caller k that begins in this step is rejected by the breaker
\* and ends the call: no request is issued and none will be
RejectedForGood(k) ==
    /\ calls'[k].phase = "raised"
    /\ calls'[k].exc = "NonRetryableError"
    /\ calls'[k].reason = "circuit_open"
    /\ calls'[k].requests = calls[k].requests
    /\ OperationDone(calls'[k])

\* every request that ends in an exception adds one to failure_count
FailuresCounted ==
    \A k \in ApiCallers :
        (RequestEnds(k) /\ calls'[k].phase # "returned") =>
            api'.circuit_breaker.failure_count = api.circuit_breaker.failure_count + 1

\* C37 as stated: every attempt that fails adds one to failure_count, and a
\* retry attempt that finds the breaker open is rejected with the non-retryable
\* "Circuit breaker is open" error, ending the call with no further request
C37_RetryMeetsOpenBreaker ==
    [][/\ FailuresCounted
       /\ \A k \in ApiCallers :
             (RetryAttempt(k) /\ api.circuit_breaker.state = "open") =>
                RejectedForGood(k)]_vars

\* C37 amended: every attempt that fails adds one to failure_count, and a
\* retry attempt that finds the breaker open no later than recovery_timeout
\* after its last failure is rejected with the non-retryable "Circuit breaker
\* is open" error, ending the call with no further request; a retry attempt
\* made later than that is let through as the half-open trial
C37_RetryMeetsOpenBreakerInTime ==
    [][/\ FailuresCounted
       /\ \A k \in ApiCallers :
             (RetryAttempt(k) /\ api.circuit_breaker.state = "open") =>
                IF now - api.circuit_breaker.last_failure_time
                      <= api.circuit_breaker.recovery_timeout
                THEN /\ RejectedForGood(k)
                     /\ api'.circuit_breaker = api.circuit_breaker
                ELSE /\ calls'[k].phase = "inflight"
                     /\ calls'[k].requests = calls[k].requests + 1
                     /\ api'.circuit_breaker.state = "half-open"]_vars

\* threshold 2: the first two attempts of one call failed at the transport and
\* opened the breaker, and the call's third attempt was rejected
C37_Witness ==
    \E k \in ApiCallers :
        /\ api.circuit_breaker.failure_threshold = 2
        /\ api.circuit_breaker.state = "open"
        /\ api.circuit_breaker.failure_count = 2
        /\ calls[k].max_retries = 2
        /\ calls[k].attempt = 2
        /\ calls[k].requests = 2
        /\ calls[k].phase = "raised"
        /\ calls[k].reason = "circuit_open"
        /\ \A j \in ApiCallers \ {k} : calls[j].phase = "idle"

-----------------------------------------------------------------------------
(* The tick and its workers: when the limiter is written, when a permit is
   released *)

\* a worker of the tick has been created and has not returned
StillRunning(wk) == wk.pc \in {"created", "processing", "updating"}

\* record_completed_tasks runs in this step: rows are added to task_completions
Records == Len(rl'.task_completions) > Len(rl.task_completions)

\* C32: a step in which record_completed_tasks runs is the last step of a
\* tick that was awaiting its workers, all of which have returned, so it runs
\* at most once in a tick; and no step taken while a worker of the tick is
\* running changes the rate limiter
C32_RecordAfterAllWorkers ==
    [][/\ Records =>
             /\ tick.pc = "gathering"
             /\ tick'.pc = "idle"
             /\ tick'.number = tick.number
             /\ \A w \in Workers : ~StillRunning(workers[w])
             /\ Len(rl'.task_completions) - Len(rl.task_completions) <= tick.launched
       /\ (\E w \in Workers : StillRunning(workers[w])) => rl' = rl]_vars

\* two workers were launched, both returned, and the tick has credited two
\* completions in its one record call
C32_Witness ==
    /\ tick.pc = "idle"
    /\ tick.launched = 2
    /\ tick.credited = 2
    /\ \A w \in 1..2 : workers[w].pc = "done" /\ workers[w].updates = 1
    /\ Len(rl.task_completions) = 2
    /\ rl.minute_counter = 2

\* worker w leaves `async with self.semaphore` in this step
Releases(w) == HoldsPermit(workers[w]) /\ ~HoldsPermit(workers'[w])

\* the update_task_status call of worker w is under way
UpdatePending(w) == calls[w].phase \in {"inflight", "sleeping"}

\* C33: a worker that processes a task releases its permit in a step that
\* ends its update_task_status call, delivered or failed, never before; while
\* the call is under way the worker holds a permit and the semaphore counts it
C33_PermitHeldThroughUpdate ==
    [][\A w \in Workers :
          /\ Releases(w) =>
                /\ workers'[w].updates = 1
                /\ calls'[w].method = "PATCH"
                /\ OperationDone(calls'[w])
                /\ semaphore' = semaphore + 1
          /\ UpdatePending(w) =>
                /\ HoldsPermit(workers[w])
                /\ semaphore <= settings.concurrency_limit
                                    - Cardinality({v \in Workers : UpdatePending(v)})]_vars

\* the first worker has delivered its result and returned; the second worker's
\* update is awaiting the control plane and its permit is still taken
C33_Witness ==
    /\ settings.concurrency_limit = 2
    /\ workers[1].pc = "done"
    /\ workers[1].delivered
    /\ workers[2].pc = "updating"
    /\ calls[2].phase = "inflight"
    /\ semaphore = 1

-----------------------------------------------------------------------------
(* The pre-check of a tick against the budget that is left: one tier, minute
   or day, with a limit up to MaxLimit or none, the master switch on or off,
   either strategy; every fetch is answered, every task succeeds and every
   update is delivered *)

InitPrecheck ==
    /\ settings \in {[DefaultSettings EXCEPT !.rate_limit_enabled = e,
                                             !.rate_limit_strategy = st,
                                             !.concurrency_limit = c,
                                             !.limits = [DefaultLimits EXCEPT ![p] = l]] :
                        e \in BOOLEAN, st \in {"rolling", "fixed"},
                        c \in 1..MaxConcurrency, p \in {"minute", "day"},
                        l \in 0..MaxLimit}
    /\ now = StartTime
    /\ clock_steps = 0
    /\ rl = RateLimiterInit(now)
    /\ rl_call = NoCall
    /\ rl_trail = NoTrail
    /\ rt = RetryIdle
    /\ api = APIClientInit(settings)
    /\ calls = [k \in Callers |-> NoOperation]
    /\ SchedulerIdle
    /\ ServicesIdle

PrecheckPoll == PollStart(ScenarioTicks)
PrecheckFetchResponse == FetchResponse({200}, PendingCounts(settings))
PrecheckWorkerStart == WorkerStart({TRUE})
PrecheckWorkerResult == WorkerResult({"succeeded"})
PrecheckUpdateResponse == UpdateResponse({200})
PrecheckClock == TickClock(MaxClockSteps, {1, SecondsPerMinute})

NextPrecheck ==
    \/ PrecheckPoll
    \/ PrecheckFetchResponse
    \/ PrecheckWorkerStart
    \/ PrecheckWorkerResult
    \/ PrecheckUpdateResponse
    \/ PollFinish
    \/ PrecheckClock

SpecPrecheck == InitPrecheck /\ [][NextPrecheck]_vars

\* a tick starts in this step
TickStarts == tick.pc = "idle" /\ tick'.number = tick.number + 1

\* some enabled tier has fewer than concurrency_limit completions left of its
\* limit at this instant
ShortOfBudget ==
    \E p \in EnabledLimits(settings) :
        settings.limits[p] - UsageBefore(settings, rl, now)[p] < settings.concurrency_limit

\* the tick that starts in this step is over at once: no fetch, no worker
EndsAtPrecheck ==
    /\ tick'.pc = "idle"
    /\ tick'.denied \in EnabledLimits(settings)
    /\ tick'.launched = 0
    /\ calls'[0].phase = "idle"
    /\ \A w \in Workers : workers'[w].pc = "none"

\* no task has been launched
NothingLaunched == tick.launched = 0 /\ \A w \in Workers : workers[w].pc = "none"

\* an enabled tier's limit is smaller than concurrency_limit
LimitBelowConcurrency ==
    \E p \in EnabledLimits(settings) : settings.limits[p] < settings.concurrency_limit

\* C36 as stated: a tick that starts while some enabled tier has fewer than
\* concurrency_limit of its budget left launches nothing, whatever is pending,
\* and with an enabled tier's limit below concurrency_limit no task is ever
\* launched
C36_PrecheckWithConcurrencyLimit ==
    [][/\ (TickStarts /\ ShortOfBudget) => EndsAtPrecheck
       /\ LimitBelowConcurrency => NothingLaunched]_vars

\* C36 amended: the same, with rate limiting switched on
C36_PrecheckWhenRateLimitEnabled ==
    [][settings.rate_limit_enabled =>
          /\ (TickStarts /\ ShortOfBudget) => EndsAtPrecheck
          /\ LimitBelowConcurrency => NothingLaunched]_vars

\* limit 2 and concurrency_limit 2: the first tick found one pending task and
\* credited it; the second tick was denied at its pre-check with a budget of
\* one left
C36_Witness ==
    /\ settings.rate_limit_enabled
    /\ settings.concurrency_limit = 2
    /\ \E p \in EnabledLimits(settings) :
          /\ settings.limits[p] = 2
          /\ tick.denied = p
          /\ UsageBefore(settings, rl, now)[p] = 1
    /\ tick.number = 2
    /\ tick.pc = "idle"
    /\ Len(rl.task_completions) = 1

-----------------------------------------------------------------------------
(* scheduler.py: TaskScheduler.start adds _poll_and_process_tasks to the
   AsyncIOScheduler as an interval job with max_instances=1 and coalesce=True.
   The scheduler notes each run time that comes due; when it gets to process
   the job it rolls the due run times into one (coalesce), and submits the
   run unless max_instances runs of the job are in progress, in which case it
   logs the skipped run.  A submitted run is a task of the event loop: it
   starts _poll_and_process_tasks when the loop next runs it. *)

MaxDue == 2

\* polling_interval_seconds
PollingInterval == 30

TwoInstances == 1 + 1

\* add_job(..., max_instances=1, ...)
max_instances == 1

\* add_job(..., coalesce=True)
coalesce == TRUE

\* the job after add_job and scheduler.start(): due is the number of run times
\* that have come due and are not processed, submitted the runs handed to the
\* event loop, skipped the run times dropped because a run was in progress,
\* merged the run times rolled into a later one
JobAdded == [pc |-> "scheduled", due |-> 0, submitted |-> 0, skipped |-> 0, merged |-> 0]

\* the runs of the job that have returned
RunsReturned(t) == IF t.pc = "idle" THEN t.number ELSE t.number - 1

\* the runs of the job in progress: submitted and not returned
Instances(j, t) == j.submitted - RunsReturned(t)

\* the run times the scheduler submits out of `due` that are due
run_times(due) == IF coalesce THEN Min(due, 1) ELSE due

\* the interval has passed: one more run time is due
TriggerDue ==
    /\ job.due < MaxDue
    /\ job.submitted + job.skipped + job.merged + job.due < MaxTicks + MaxDue
    /\ job' = [job EXCEPT !.due = @ + 1]
    /\ now' = now + PollingInterval
    /\ UNCHANGED <<settings, clock_steps, rlVars, rt, apiVars, schedVars,
                   proc, hybrid, wikidata, ory, conns>>

\* the scheduler processes the job: it submits the due run, or skips it when
\* max_instances runs are in progress
ProcessJobs ==
    /\ job.due > 0
    /\ IF Instances(job, tick) >= max_instances
       THEN job' = [job EXCEPT !.due = 0, !.skipped = @ + run_times(job.due),
                               !.merged = @ + job.due - run_times(job.due)]
       ELSE job' = [job EXCEPT !.due = 0, !.submitted = @ + run_times(job.due),
                               !.merged = @ + job.due - run_times(job.due)]
    /\ UNCHANGED <<settings, now, clock_steps, rlVars, rt, apiVars, schedVars,
                   proc, hybrid, wikidata, ory, conns>>

\* the event loop runs a submitted run: _poll_and_process_tasks starts
JobRuns ==
    /\ job.submitted > tick.number
    /\ PollStart(MaxTicks)

InitTrigger ==
    /\ settings \in {[DefaultSettings EXCEPT !.concurrency_limit = c] :
                        c \in 1..MaxConcurrency}
    /\ now = StartTime
    /\ clock_steps = 0
    /\ rl = RateLimiterInit(now)
    /\ rl_call = NoCall
    /\ rl_trail = NoTrail
    /\ rt = RetryIdle
    /\ api = APIClientInit(settings)
    /\ calls = [k \in Callers |-> NoOperation]
    /\ SchedulerIdle
    /\ proc = Idle
    /\ hybrid = Idle
    /\ wikidata = Idle
    /\ ory = Idle
    /\ conns = Idle
    /\ job = JobAdded

TriggerFetchResponse == FetchResponse({200}, PendingCounts(settings))
TriggerWorkerStart == WorkerStart({TRUE})
TriggerWorkerResult == WorkerResult({"succeeded"})
TriggerUpdateResponse == UpdateResponse({200})

NextTrigger ==
    \/ TriggerDue
    \/ ProcessJobs
    \/ JobRuns
    \/ TriggerFetchResponse
    \/ TriggerWorkerStart
    \/ TriggerWorkerResult
    \/ TriggerUpdateResponse
    \/ PollFinish

SpecTrigger == InitTrigger /\ [][NextTrigger]_vars

\* C34: at most one run of _poll_and_process_tasks is in progress; a run is
\* submitted only when none is in progress, be the previous one fetching,
\* awaiting its workers or about to credit the limiter; and the run times that
\* came due are all used up by one step that starts at most one run, the rest
\* being skipped or rolled into it
C34_TicksDoNotOverlap ==
    [][/\ Instances(job, tick) <= 1
       /\ Instances(job', tick') <= 1
       /\ job'.submitted > job.submitted =>
             /\ tick.pc = "idle"
             /\ \A w \in Workers : workers[w].pc \in {"none", "done"}
             /\ job'.submitted = job.submitted + 1
       /\ (job.due > 0 /\ job'.due = 0) =>
             /\ job'.submitted + job'.skipped + job'.merged
                   = job.submitted + job.skipped + job.merged + job.due
             /\ tick.pc # "idle" => job'.submitted = job.submitted]_vars

\* two run times came due while the first run was awaiting its workers: they
\* were dropped, and the second run started later, after the first had ended
C34_Witness ==
    /\ job.skipped = 1
    /\ job.merged = 1
    /\ job.submitted = 2
    /\ tick.number = 2
    /\ tick.pc = "gathering"

-----------------------------------------------------------------------------
(* The counters kept in memory and the calendar windows *)

\* the completions credited inside the calendar window of tier p that holds
\* the instant `at`
CreditedInWindow(seq, p, at) ==
    Cardinality({i \in 1..Len(seq) : get_fixed_window(p, seq[i]) = get_fixed_window(p, at)})

\* C35 as stated: under the fixed strategy a check_all_limits call counts, for
\* the minute and the hour tier, every completion credited before it inside
\* the calendar window in which it is made
C35_CreditsCountedInTheirWindow ==
    (rl_call.op = "check" /\ settings.rate_limit_enabled
        /\ settings.rate_limit_strategy = "fixed") =>
        \A p \in EnabledLimits(settings) \cap MemoryPeriods :
            rl_call.before[p] >= CreditedInWindow(rl.task_completions, p, rl_call.at)

-----------------------------------------------------------------------------
(* record_completed_tasks when the SQLite file cannot be written: connect, an
   execute or the commit raises, nothing is committed and the exception leaves
   the call *)

\* lines 319-333 and the exception out of the block of lines 336-365: the
\* counters in memory have been added to, the tables are as they were
record_completed_tasks_failed(cfg, s, task_count) ==
    IF ~cfg.rate_limit_enabled THEN s
    ELSE [ initialize(s) EXCEPT !.minute_counter = @ + task_count,
                                !.hour_counter = @ + task_count ]

\* the counters kept in memory
MemoryCounters(s) == [minute |-> s.minute_counter, hour |-> s.hour_counter]

\* record_completed_tasks(n) is called and the write to the store fails
RLRecordFails ==
    \E n \in 1..MaxBatch :
        /\ settings.rate_limit_enabled
        /\ rl.minute_counter + n <= MaxRecorded
        /\ rl' = record_completed_tasks_failed(settings, rl, n)
        /\ rl_call' = [ NoCall EXCEPT !.op = "record_failed", !.task_count = n,
                          !.at = now, !.stats = MemoryCounters(rl) ]
        /\ UNCHANGED <<settings, svcVars, now, clock_steps, rl_trail, rt, api, calls, schedVars>>

NextStoreFailure == AdvanceClock \/ RLCheck \/ RLRecord \/ RLRecordFails

SpecStoreFailure == InitRL /\ [][NextStoreFailure]_vars

\* C39 as stated: after a record_completed_tasks call whose write to the store
\* failed, the minute and hour counters in memory are what they were before
\* the call
C39_RecordAllOrNothing ==
    rl_call.op = "record_failed" => MemoryCounters(rl) = rl_call.stats

=============================================================================
